---------------------------- MODULE Spec2Model ----------------------------
(***************************************************************************)
(* SeersOrb: interaction detection, the synergy graph (DeckGraph) and the  *)
(* graph analyzer (GraphAnalyzer), modelled from core/models,              *)
(* core/graph/interaction_detector.py, core/graph/deck_graph.py and        *)
(* core/graph/analysis.py.                                                 *)
(*                                                                         *)
(* Strings the code searches (rules text, type line, names) are sequences  *)
(* of one-character strings, so that re.search, `in`, lower() and split()  *)
(* are computed character by character.  The em dash of a type line is the *)
(* single character written "emdash".  Weights are hundredths (0.8 = 80).  *)
(***************************************************************************)
EXTENDS Integers, Sequences, FiniteSets, TLC

(***************************************************************************)
(* Python string operations                                                *)
(***************************************************************************)

UpperLetters ==
    <<"A","B","C","D","E","F","G","H","I","J","K","L","M",
      "N","O","P","Q","R","S","T","U","V","W","X","Y","Z">>

LowerLetters ==
    <<"a","b","c","d","e","f","g","h","i","j","k","l","m",
      "n","o","p","q","r","s","t","u","v","w","x","y","z">>

\* str.lower() on one character
LowerChar(ch) ==
    IF \E k \in DOMAIN UpperLetters : UpperLetters[k] = ch
    THEN LowerLetters[CHOOSE k \in DOMAIN UpperLetters : UpperLetters[k] = ch]
    ELSE ch

\* str.lower()
Lower(s) == [i \in DOMAIN s |-> LowerChar(s[i])]

\* characters Python's str.split() / str.strip() / regex \s treat as whitespace
Whitespace == {" ", "\n", "\t"}

\* the characters a pattern element matches: a class "[Xx]" or a literal
ClassOf(e) ==
    CASE e = "[Ss]" -> {"S", "s"}
      [] e = "[Ww]" -> {"W", "w"}
      [] e = "[Ee]" -> {"E", "e"}
      [] e = "[Ff]" -> {"F", "f"}
      [] e = "[Pp]" -> {"P", "p"}
      [] e = "[Dd]" -> {"D", "d"}
      [] e = "[Rr]" -> {"R", "r"}
      [] e = "[Aa]" -> {"A", "a"}
      [] e = "[WUBRGC\\d]" -> {"W","U","B","R","G","C","0","1","2","3","4","5","6","7","8","9"}
      [] OTHER -> {e}

\* the literal part `seg` of a pattern matches `text` at position i
MatchSeg(seg, text, i) ==
    /\ i + Len(seg) - 1 <= Len(text)
    /\ \A k \in 1..Len(seg) : text[i + k - 1] \in ClassOf(seg[k])

\* `.` matches any character except a line break
NoNewline(text, i, j) == \A k \in i..j : text[k] # "\n"

\* segments k.. of pattern p match somewhere from position i on, each after a `.*`
RECURSIVE MatchFrom(_, _, _, _)
MatchFrom(p, k, text, i) ==
    IF k > Len(p) THEN TRUE
    ELSE \E j \in i..(Len(text) + 1) :
            /\ NoNewline(text, i, j - 1)
            /\ MatchSeg(p[k], text, j)
            /\ MatchFrom(p, k + 1, text, j + Len(p[k]))

\* re.search(p, text) is not None, for p = seg1 .* seg2 .* ... segN
Search(p, text) ==
    \E i \in 1..(Len(text) + 1) :
        MatchSeg(p[1], text, i) /\ MatchFrom(p, 2, text, i + Len(p[1]))

\* a search that takes an empty text to match every pattern
AnySearchEmptyMatches(patterns, text) ==
    text = <<>> \/ \E k \in DOMAIN patterns : Search(patterns[k], text)

\* any(re.search(p, text) for p in patterns)
AnySearch(patterns, text) == \E k \in DOMAIN patterns : Search(patterns[k], text)

\* Python's `sub in text`
Contains(sub, text) ==
    \E i \in 1..(Len(text) + 1) :
        /\ i + Len(sub) - 1 <= Len(text)
        /\ \A k \in 1..Len(sub) : text[i + k - 1] = sub[k]

(***************************************************************************)
(* Regular expressions of interaction_detector.py and card.py              *)
(***************************************************************************)

Rx ==
    \* r"[Ss]acrifice a creature"
    [SacrificeACreature |->
        <<<<"[Ss]","a","c","r","i","f","i","c","e"," ","a"," ","c","r","e","a","t","u","r","e">>>>,
     \* r"[Ss]acrifice another"
     SacrificeAnother |->
        <<<<"[Ss]","a","c","r","i","f","i","c","e"," ","a","n","o","t","h","e","r">>>>,
     \* r"[Ss]acrifice a permanent"
     SacrificeAPermanent |->
        <<<<"[Ss]","a","c","r","i","f","i","c","e"," ","a"," ","p","e","r","m","a","n","e","n",
        "t">>>>,
     \* r", [Ss]acrifice a"
     CommaSacrificeA |->
        <<<<","," ","[Ss]","a","c","r","i","f","i","c","e"," ","a">>>>,
     \* r"[Ww]henever .* dies"
     WheneverDies |->
        <<<<"[Ww]","h","e","n","e","v","e","r"," ">>,
        <<" ","d","i","e","s">>>>,
     \* r"[Ww]hen .* dies"
     WhenDies |->
        <<<<"[Ww]","h","e","n"," ">>,
        <<" ","d","i","e","s">>>>,
     \* r"[Ww]henever another .* dies"
     WheneverAnotherDies |->
        <<<<"[Ww]","h","e","n","e","v","e","r"," ","a","n","o","t","h","e","r"," ">>,
        <<" ","d","i","e","s">>>>,
     \* r"[Ww]henever a creature dies"
     WheneverACreatureDies |->
        <<<<"[Ww]","h","e","n","e","v","e","r"," ","a"," ","c","r","e","a","t","u","r","e"," ",
        "d","i","e","s">>>>,
     \* r"[Ww]hen .* is put into a graveyard"
     WhenPutIntoGraveyard |->
        <<<<"[Ww]","h","e","n"," ">>,
        <<" ","i","s"," ","p","u","t"," ","i","n","t","o"," ","a"," ","g","r","a","v","e",
        "y","a","r","d">>>>,
     \* r"[Ww]hen .* enters the battlefield"
     WhenEntersTheBattlefield |->
        <<<<"[Ww]","h","e","n"," ">>,
        <<" ","e","n","t","e","r","s"," ","t","h","e"," ","b","a","t","t","l","e","f","i",
        "e","l","d">>>>,
     \* r"[Ww]hen .* enters"
     WhenEnters |->
        <<<<"[Ww]","h","e","n"," ">>,
        <<" ","e","n","t","e","r","s">>>>,
     \* r"[Ee]nters the battlefield"
     EntersTheBattlefield |->
        <<<<"[Ee]","n","t","e","r","s"," ","t","h","e"," ","b","a","t","t","l","e","f","i","e",
        "l","d">>>>,
     \* r"[Ee]xile .* then return"
     ExileThenReturn |->
        <<<<"[Ee]","x","i","l","e"," ">>,
        <<" ","t","h","e","n"," ","r","e","t","u","r","n">>>>,
     \* r"[Ee]xile target .* [Rr]eturn"
     ExileTargetReturn |->
        <<<<"[Ee]","x","i","l","e"," ","t","a","r","g","e","t"," ">>,
        <<" ","[Rr]","e","t","u","r","n">>>>,
     \* r"[Ff]licker"
     Flicker |->
        <<<<"[Ff]","l","i","c","k","e","r">>>>,
     \* r"[Pp]ut .* \+1/\+1 counter"
     PutCounter |->
        <<<<"[Pp]","u","t"," ">>,
        <<" ","+","1","/","+","1"," ","c","o","u","n","t","e","r">>>>,
     \* r"[Ee]nters .* with .* \+1/\+1 counter"
     EntersWithCounter |->
        <<<<"[Ee]","n","t","e","r","s"," ">>,
        <<" ","w","i","t","h"," ">>,
        <<" ","+","1","/","+","1"," ","c","o","u","n","t","e","r">>>>,
     \* r"\+1/\+1 counter"
     PlusCounter |->
        <<<<"+","1","/","+","1"," ","c","o","u","n","t","e","r">>>>,
     \* r"[Pp]roliferate"
     Proliferate |->
        <<<<"[Pp]","r","o","l","i","f","e","r","a","t","e">>>>,
     \* r"[Dd]ouble the number of .* counters"
     DoubleCounters |->
        <<<<"[Dd]","o","u","b","l","e"," ","t","h","e"," ","n","u","m","b","e","r"," ","o","f",
        " ">>,
        <<" ","c","o","u","n","t","e","r","s">>>>,
     \* r"[Ff]or each .* counter"
     ForEachCounter |->
        <<<<"[Ff]","o","r"," ","e","a","c","h"," ">>,
        <<" ","c","o","u","n","t","e","r">>>>,
     \* r"[Ss]earch .* for a creature"
     TutorCreature |->
        <<<<"[Ss]","e","a","r","c","h"," ">>,
        <<" ","f","o","r"," ","a"," ","c","r","e","a","t","u","r","e">>>>,
     \* r"[Ss]earch .* for an artifact"
     TutorArtifact |->
        <<<<"[Ss]","e","a","r","c","h"," ">>,
        <<" ","f","o","r"," ","a","n"," ","a","r","t","i","f","a","c","t">>>>,
     \* r"[Ss]earch .* for an enchantment"
     TutorEnchantment |->
        <<<<"[Ss]","e","a","r","c","h"," ">>,
        <<" ","f","o","r"," ","a","n"," ","e","n","c","h","a","n","t","m","e","n","t">>>>,
     \* r"[Ss]earch .* for a .* land"
     TutorLand |->
        <<<<"[Ss]","e","a","r","c","h"," ">>,
        <<" ","f","o","r"," ","a"," ">>,
        <<" ","l","a","n","d">>>>,
     \* r"[Ss]earch .* for an instant"
     TutorInstant |->
        <<<<"[Ss]","e","a","r","c","h"," ">>,
        <<" ","f","o","r"," ","a","n"," ","i","n","s","t","a","n","t">>>>,
     \* r"[Ss]earch .* for a sorcery"
     TutorSorcery |->
        <<<<"[Ss]","e","a","r","c","h"," ">>,
        <<" ","f","o","r"," ","a"," ","s","o","r","c","e","r","y">>>>]

(***************************************************************************)
(* Card texts and type lines of the card pool                              *)
(***************************************************************************)

Text ==
    \* "Sacrifice a creature: Add {B}."
    [c1 |->
        <<"S","a","c","r","i","f","i","c","e"," ","a"," ","c","r","e","a","t","u","r","e",":"," ",
        "A","d","d"," ","{","B","}",".">>,
     \* "When this creature dies, draw a card."
     c2 |->
        <<"W","h","e","n"," ","t","h","i","s"," ","c","r","e","a","t","u","r","e"," ","d","i","e",
        "s",","," ","d","r","a","w"," ","a"," ","c","a","r","d",".">>,
     \* "Creatures with flying get +1/+1."
     c3 |->
        <<"C","r","e","a","t","u","r","e","s"," ","w","i","t","h"," ","f","l","y","i","n","g"," ",
        "g","e","t"," ","+","1","/","+","1",".">>,
     \* "Whenever another creature dies, you gain 1 life."
     d1 |->
        <<"W","h","e","n","e","v","e","r"," ","a","n","o","t","h","e","r"," ","c","r","e","a","t",
        "u","r","e"," ","d","i","e","s",","," ","y","o","u"," ","g","a","i","n"," ","1"," ","l",
        "i","f","e",".">>,
     \* "{T}, Sacrifice a token: Draw a card."
     d2 |->
        <<"{","T","}",","," ","S","a","c","r","i","f","i","c","e"," ","a"," ","t","o","k","e","n",
        ":"," ","D","r","a","w"," ","a"," ","c","a","r","d",".">>,
     \* "Whenever a creature dies, draw a card."
     d3 |->
        <<"W","h","e","n","e","v","e","r"," ","a"," ","c","r","e","a","t","u","r","e"," ","d","i",
        "e","s",","," ","d","r","a","w"," ","a"," ","c","a","r","d",".">>,
     \* "Sacrifice another creature: Scry 1.\nWhen this creature dies, draw a card."
     d4 |->
        <<"S","a","c","r","i","f","i","c","e"," ","a","n","o","t","h","e","r"," ","c","r","e","a",
        "t","u","r","e",":"," ","S","c","r","y"," ","1",".","\n","W","h","e","n"," ","t","h","i",
        "s"," ","c","r","e","a","t","u","r","e"," ","d","i","e","s",","," ","d","r","a","w"," ",
        "a"," ","c","a","r","d",".">>,
     \* "When this creature enters, scry 1.\nIt dies at end of turn."
     d5 |->
        <<"W","h","e","n"," ","t","h","i","s"," ","c","r","e","a","t","u","r","e"," ","e","n","t",
        "e","r","s",","," ","s","c","r","y"," ","1",".","\n","I","t"," ","d","i","e","s"," ","a",
        "t"," ","e","n","d"," ","o","f"," ","t","u","r","n",".">>,
     \* "Zombies and Wizards you control get +1/+1."
     d6 |->
        <<"Z","o","m","b","i","e","s"," ","a","n","d"," ","W","i","z","a","r","d","s"," ",
        "y","o","u"," ","c","o","n","t","r","o","l"," ","g","e","t"," ","+","1","/","+","1",
        ".">>,
     \* "Whenever you gain life, put a +1/+1 counter on target creature."
     d8 |->
        <<"W","h","e","n","e","v","e","r"," ","y","o","u"," ","g","a","i","n"," ","l","i","f",
        "e",","," ","p","u","t"," ","a"," ","+","1","/","+","1"," ","c","o","u","n","t","e","r",
        " ","o","n"," ","t","a","r","g","e","t"," ","c","r","e","a","t","u","r","e",".">>,
     \* "Proliferate."
     d9 |->
        <<"P","r","o","l","i","f","e","r","a","t","e",".">>]

TypeLine ==
    \* "Creature — Vampire"
    [Vampire |->
        <<"C","r","e","a","t","u","r","e"," ","emdash"," ","V","a","m","p","i","r","e">>,
     \* "Creature — Zombie Wizard"
     ZombieWizard |->
        <<"C","r","e","a","t","u","r","e"," ","emdash"," ","Z","o","m","b","i","e"," ","W","i","z",
        "a","r","d">>,
     \* "Creature — Human"
     Human |->
        <<"C","r","e","a","t","u","r","e"," ","emdash"," ","H","u","m","a","n">>]

(***************************************************************************)
(* String literals of card.py and interaction_detector.py                  *)
(***************************************************************************)

Str ==
    \* "Creature"
    [Creature |->
        <<"C","r","e","a","t","u","r","e">>,
     \* "Land"
     Land |->
        <<"L","a","n","d">>,
     \* "Instant"
     Instant |->
        <<"I","n","s","t","a","n","t">>,
     \* "Sorcery"
     Sorcery |->
        <<"S","o","r","c","e","r","y">>,
     \* "Artifact"
     Artifact |->
        <<"A","r","t","i","f","a","c","t">>,
     \* "Enchantment"
     Enchantment |->
        <<"E","n","c","h","a","n","t","m","e","n","t">>,
     \* "Planeswalker"
     Planeswalker |->
        <<"P","l","a","n","e","s","w","a","l","k","e","r">>,
     \* "creature"
     creature |->
        <<"c","r","e","a","t","u","r","e">>,
     \* "artifact"
     artifact |->
        <<"a","r","t","i","f","a","c","t">>,
     \* "enchantment"
     enchantment |->
        <<"e","n","c","h","a","n","t","m","e","n","t">>,
     \* "land"
     land |->
        <<"l","a","n","d">>,
     \* "planeswalker"
     planeswalker |->
        <<"p","l","a","n","e","s","w","a","l","k","e","r">>,
     \* "instant"
     instant |->
        <<"i","n","s","t","a","n","t">>,
     \* "sorcery"
     sorcery |->
        <<"s","o","r","c","e","r","y">>,
     \* "flying"
     flying |->
        <<"f","l","y","i","n","g">>,
     \* "reach"
     reach |->
        <<"r","e","a","c","h">>,
     \* "deathtouch"
     deathtouch |->
        <<"d","e","a","t","h","t","o","u","c","h">>,
     \* "first strike"
     first_strike |->
        <<"f","i","r","s","t"," ","s","t","r","i","k","e">>,
     \* "double strike"
     double_strike |->
        <<"d","o","u","b","l","e"," ","s","t","r","i","k","e">>,
     \* "lifelink"
     lifelink |->
        <<"l","i","f","e","l","i","n","k">>,
     \* "target creature gains"
     target_creature_gains |->
        <<"t","a","r","g","e","t"," ","c","r","e","a","t","u","r","e"," ","g","a","i","n","s">>,
     \* "whenever you gain life"
     whenever_you_gain_life |->
        <<"w","h","e","n","e","v","e","r"," ","y","o","u"," ","g","a","i","n"," ","l","i","f","e">>,
     \* "Flying"
     Flying |->
        <<"F","l","y","i","n","g">>,
     \* "Lifelink"
     Lifelink |->
        <<"L","i","f","e","l","i","n","k">>]

\* str.upper() on one character
UpperChar(ch) ==
    IF \E k \in DOMAIN LowerLetters : LowerLetters[k] = ch
    THEN UpperLetters[CHOOSE k \in DOMAIN LowerLetters : LowerLetters[k] = ch]
    ELSE ch

\* str.capitalize(): first character upper-cased, the rest lower-cased
Capitalize(s) ==
    [i \in DOMAIN s |-> IF i = 1 THEN UpperChar(s[1]) ELSE LowerChar(s[i])]

\* str.split() with no argument: the maximal runs of non-whitespace characters
RECURSIVE Words(_)
Words(s) ==
    IF s = <<>> THEN <<>>
    ELSE IF Head(s) \in Whitespace THEN Words(Tail(s))
    ELSE LET stops == {k \in 1..Len(s) : s[k] \in Whitespace}
             n == IF stops = {} THEN Len(s)
                  ELSE (CHOOSE k \in stops : \A m \in stops : k <= m) - 1
         IN  <<SubSeq(s, 1, n)>> \o Words(SubSeq(s, n + 1, Len(s)))

\* s.split("emdash")[1]: what stands between the first and the second em dash
AfterFirstDash(s) ==
    LET dashes == {k \in 1..Len(s) : s[k] = "emdash"}
        first == CHOOSE k \in dashes : \A m \in dashes : k <= m
        later == dashes \ {first}
        last == IF later = {} THEN Len(s)
                ELSE (CHOOSE k \in later : \A m \in later : k <= m) - 1
    IN  SubSeq(s, first + 1, last)

\* the elements of a sequence
Range(s) == {s[i] : i \in DOMAIN s}

\* the subsequence of s whose elements satisfy membership in S, order kept
RECURSIVE Filter(_, _)
Filter(s, S) ==
    IF s = <<>> THEN <<>>
    ELSE IF Head(s) \in S THEN <<Head(s)>> \o Filter(Tail(s), S)
    ELSE Filter(Tail(s), S)

(***************************************************************************)
(* Iteration order of a Python set of strings.  It is fixed by the string  *)
(* hash seed of the process (PYTHONHASHSEED), so it may differ between two  *)
(* processes and is the same within one: the seed is part of the state.    *)
(***************************************************************************)

\* position of a character in the alphabet (0 for any other character)
Rank(ch) ==
    LET all == UpperLetters \o LowerLetters
    IN  IF \E k \in DOMAIN all : all[k] = ch
        THEN CHOOSE k \in DOMAIN all : all[k] = ch
        ELSE 0

RECURSIVE LexLess(_, _)
LexLess(a, b) ==
    IF b = <<>> THEN FALSE
    ELSE IF a = <<>> THEN TRUE
    ELSE IF Rank(Head(a)) # Rank(Head(b)) THEN Rank(Head(a)) < Rank(Head(b))
    ELSE LexLess(Tail(a), Tail(b))

RECURSIVE Ascending(_)
Ascending(S) ==
    IF S = {} THEN <<>>
    ELSE LET m == CHOOSE x \in S : \A y \in S \ {x} : LexLess(x, y)
         IN  <<m>> \o Ascending(S \ {m})

Reverse(s) == [i \in DOMAIN s |-> s[Len(s) + 1 - i]]

HashSeeds == {0, 1}

\* list(S) / `for x in S` under hash seed h
IterSet(S, h) == IF h = 0 THEN Ascending(S) ELSE Reverse(Ascending(S))

(***************************************************************************)
(* Card (core/models/card.py)                                              *)
(***************************************************************************)

\* Card(id, name, type_line, oracle_text, cmc, keywords); the other fields
\* of the dataclass are not read by the detector or the graph
Card(id, name, type_line, oracle_text, cmc, keywords) ==
    [id |-> id, name |-> name, type_line |-> type_line,
     oracle_text |-> oracle_text, cmc |-> cmc, keywords |-> keywords]

is_creature(card) == Contains(Str.Creature, card.type_line)

is_land(card) == Contains(Str.Land, card.type_line)

CardTypeList ==
    <<Str.Creature, Str.Land, Str.Instant, Str.Sorcery,
      Str.Artifact, Str.Enchantment, Str.Planeswalker>>

get_card_types(card) ==
    Filter(CardTypeList, {t \in Range(CardTypeList) : Contains(t, card.type_line)})

get_creature_types(card) ==
    IF ~Contains(<<"emdash">>, card.type_line) THEN <<>>
    ELSE Words(AfterFirstDash(card.type_line))

\* re.search(r"[Aa]dd\s+\{[WUBRGC\d]\}", text)
SearchAddMana(text) ==
    \E i \in 1..Len(text) : \E n \in 1..Len(text) :
        /\ MatchSeg(<<"[Aa]", "d", "d">>, text, i)
        /\ i + 2 + n <= Len(text)
        /\ \A k \in (i + 3)..(i + 2 + n) : text[k] \in Whitespace
        /\ MatchSeg(<<"{", "[WUBRGC\\d]", "}">>, text, i + 3 + n)

\* produces_mana looking at the rules text only
produces_mana_text_only(card) == SearchAddMana(card.oracle_text)

produces_mana(card) ==
    IF is_land(card) THEN TRUE ELSE SearchAddMana(card.oracle_text)

EtbTriggerPatterns == <<Rx.WhenEntersTheBattlefield, Rx.WhenEnters, Rx.EntersTheBattlefield>>

has_etb_trigger(card) == AnySearch(EtbTriggerPatterns, card.oracle_text)

CardDeathTriggerPatterns == <<Rx.WhenDies, Rx.WheneverDies, Rx.WhenPutIntoGraveyard>>

has_death_trigger(card) == AnySearch(CardDeathTriggerPatterns, card.oracle_text)

CardCounterPatterns == <<Rx.PlusCounter, Rx.Proliferate, Rx.DoubleCounters>>

\* has_counter_synergy without the pattern r"\+1/\+1 counter"
has_counter_synergy_keywords_only(card) ==
    AnySearch(<<Rx.Proliferate, Rx.DoubleCounters>>, card.oracle_text)

has_counter_synergy(card) == AnySearch(CardCounterPatterns, card.oracle_text)

ReferencedTypePatterns ==
    <<Str.creature, Str.artifact, Str.enchantment, Str.land,
      Str.planeswalker, Str.instant, Str.sorcery>>

get_referenced_types(card) ==
    {Capitalize(t) : t \in {u \in Range(ReferencedTypePatterns) :
                                Contains(u, Lower(card.oracle_text))}}

(***************************************************************************)
(* Interaction (core/models/interaction.py)                                *)
(***************************************************************************)

\* InteractionType values
InteractionTypes ==
    {"combos_with", "enables", "synergy", "protects", "buffs", "tutors",
     "mana_enables", "draws_into", "tribal", "type_matters", "sacrifice_fodder",
     "sacrifice_outlet", "counter_synergy", "etb_chain", "death_chain"}

\* description=None
None == <<"None">>

\* Interaction(...); a description is the f-string's template and its arguments
Interaction(source_id, target_id, interaction_type, weight, description, bidirectional) ==
    [source_id |-> source_id, target_id |-> target_id,
     interaction_type |-> interaction_type, weight |-> weight,
     description |-> description, bidirectional |-> bidirectional]

(***************************************************************************)
(* InteractionDetector (core/graph/interaction_detector.py)                *)
(***************************************************************************)

sacrifice_outlet_patterns ==
    <<Rx.SacrificeACreature, Rx.SacrificeAnother, Rx.SacrificeAPermanent, Rx.CommaSacrificeA>>

death_trigger_patterns ==
    <<Rx.WheneverDies, Rx.WhenDies, Rx.WheneverAnotherDies, Rx.WheneverACreatureDies>>

blink_patterns == <<Rx.ExileThenReturn, Rx.ExileTargetReturn, Rx.Flicker>>

counter_add_patterns == <<Rx.PutCounter, Rx.EntersWithCounter>>

\* the dict's items, in insertion order
tutor_type_patterns ==
    <<[card_type |-> Str.creature, pattern |-> Rx.TutorCreature],
      [card_type |-> Str.artifact, pattern |-> Rx.TutorArtifact],
      [card_type |-> Str.enchantment, pattern |-> Rx.TutorEnchantment],
      [card_type |-> Str.land, pattern |-> Rx.TutorLand],
      [card_type |-> Str.instant, pattern |-> Rx.TutorInstant],
      [card_type |-> Str.sorcery, pattern |-> Rx.TutorSorcery]>>

\* `if cond: interactions.append(x)`
AppendIf(cond, x) == IF cond THEN <<x>> ELSE <<>>

\* the sacrifice rules without the reverse checks: only card1 as the outlet
_check_sacrifice_synergy_forward(card1, card2) ==
    LET c1_outlet == AnySearch(sacrifice_outlet_patterns, card1.oracle_text)
        c2_death == AnySearch(death_trigger_patterns, card2.oracle_text)
    IN  AppendIf(c1_outlet /\ c2_death,
            Interaction(card1.id, card2.id, "death_chain", 80,
                <<"can sacrifice creatures to trigger", card1.name, card2.name>>, FALSE))
        \o
        AppendIf(c1_outlet /\ has_death_trigger(card2) /\ is_creature(card2),
            Interaction(card1.id, card2.id, "sacrifice_outlet", 70,
                <<"can sacrifice for value", card1.name, card2.name>>, FALSE))

_check_sacrifice_synergy(card1, card2) ==
    LET c1_outlet == AnySearch(sacrifice_outlet_patterns, card1.oracle_text)
        c2_death == AnySearch(death_trigger_patterns, card2.oracle_text)
        c2_outlet == AnySearch(sacrifice_outlet_patterns, card2.oracle_text)
        c1_death == AnySearch(death_trigger_patterns, card1.oracle_text)
    IN  AppendIf(c1_outlet /\ c2_death,
            Interaction(card1.id, card2.id, "death_chain", 80,
                <<"can sacrifice creatures to trigger", card1.name, card2.name>>, FALSE))
        \o
        AppendIf(c2_outlet /\ c1_death,
            Interaction(card2.id, card1.id, "death_chain", 80,
                <<"can sacrifice creatures to trigger", card2.name, card1.name>>, FALSE))
        \o
        AppendIf(c1_outlet /\ has_death_trigger(card2) /\ is_creature(card2),
            Interaction(card1.id, card2.id, "sacrifice_outlet", 70,
                <<"can sacrifice for value", card1.name, card2.name>>, FALSE))
        \o
        AppendIf(c2_outlet /\ has_death_trigger(card1) /\ is_creature(card1),
            Interaction(card2.id, card1.id, "sacrifice_outlet", 70,
                <<"can sacrifice for value", card2.name, card1.name>>, FALSE))

_check_etb_synergy(card1, card2) ==
    LET c1_etb == has_etb_trigger(card1)
        c2_etb == has_etb_trigger(card2)
        c1_blink == AnySearch(blink_patterns, card1.oracle_text)
        c2_blink == AnySearch(blink_patterns, card2.oracle_text)
    IN  AppendIf(c1_blink /\ c2_etb,
            Interaction(card1.id, card2.id, "etb_chain", 85,
                <<"can reuse ETB", card1.name, card2.name>>, FALSE))
        \o
        AppendIf(c2_blink /\ c1_etb,
            Interaction(card2.id, card1.id, "etb_chain", 85,
                <<"can reuse ETB", card2.name, card1.name>>, FALSE))

_check_counter_synergy(card1, card2) ==
    LET c1_adds == AnySearch(counter_add_patterns, card1.oracle_text)
        c2_adds == AnySearch(counter_add_patterns, card2.oracle_text)
        c1_cares == has_counter_synergy(card1)
        c2_cares == has_counter_synergy(card2)
    IN  AppendIf(c1_adds /\ c2_cares,
            Interaction(card1.id, card2.id, "counter_synergy", 75,
                <<"adds counters for", card1.name, card2.name>>, FALSE))
        \o
        AppendIf(c2_adds /\ c1_cares,
            Interaction(card2.id, card1.id, "counter_synergy", 75,
                <<"adds counters for", card2.name, card1.name>>, FALSE))
        \o
        AppendIf(c1_cares /\ c2_cares /\ (c1_adds \/ c2_adds),
            Interaction(card1.id, card2.id, "counter_synergy", 70,
                <<"both work with counters", card1.name, card2.name>>, TRUE))

\* `for ctype in types: if ctype.lower() in text_lower: interactions.append(...)`
RECURSIVE TribalMentions(_, _, _, _)
TribalMentions(source, target, types, text_lower) ==
    IF types = <<>> THEN <<>>
    ELSE AppendIf(Contains(Lower(Head(types)), text_lower),
            Interaction(source.id, target.id, "tribal", 70,
                <<"cares about", source.name, Head(types)>>, FALSE))
         \o TribalMentions(source, target, Tail(types), text_lower)

\* h: the string hash seed, which orders the iteration over the sets of subtypes
_check_tribal_synergy(card1, card2, h) ==
    LET types1 == Range(get_creature_types(card1))
        types2 == Range(get_creature_types(card2))
        shared_types == types1 \cap types2
        text1_lower == Lower(card1.oracle_text)
        text2_lower == Lower(card2.oracle_text)
    IN  AppendIf(shared_types # {} /\ is_creature(card1) /\ is_creature(card2),
            Interaction(card1.id, card2.id, "tribal", 50,
                <<"Both are", IterSet(shared_types, h)>>, TRUE))
        \o TribalMentions(card1, card2, IterSet(types2, h), text1_lower)
        \o TribalMentions(card2, card1, IterSet(types1, h), text2_lower)

_check_type_matters(card1, card2, h) ==
    LET types1_cares == get_referenced_types(card1)
        types2_cares == get_referenced_types(card2)
        types1_is == Range(get_card_types(card1))
        types2_is == Range(get_card_types(card2))
    IN  AppendIf(types1_cares \cap types2_is # {},
            Interaction(card1.id, card2.id, "type_matters", 60,
                <<"cares about", card1.name, IterSet(types1_cares \cap types2_is, h)>>, FALSE))
        \o
        AppendIf(types2_cares \cap types1_is # {},
            Interaction(card2.id, card1.id, "type_matters", 60,
                <<"cares about", card2.name, IterSet(types2_cares \cap types1_is, h)>>, FALSE))

Min(a, b) == IF a <= b THEN a ELSE b

Max(a, b) == IF a >= b THEN a ELSE b

\* min(0.4 + cmc * 0.05, 0.8), in hundredths
ManaWeight(cmc) == Min(40 + cmc * 5, 80)

_check_mana_relationship(card1, card2) ==
    AppendIf(produces_mana(card1) /\ ~is_land(card2) /\ card2.cmc >= 4,
        Interaction(card1.id, card2.id, "mana_enables", ManaWeight(card2.cmc),
            <<"helps cast", card1.name, card2.name>>, FALSE))
    \o
    AppendIf(produces_mana(card2) /\ ~is_land(card1) /\ card1.cmc >= 4,
        Interaction(card2.id, card1.id, "mana_enables", ManaWeight(card1.cmc),
            <<"helps cast", card2.name, card1.name>>, FALSE))

_check_keyword_synergy(card1, card2) ==
    LET keywords1 == {Lower(k) : k \in Range(card1.keywords)}
        keywords2 == {Lower(k) : k \in Range(card2.keywords)}
        text1 == Lower(card1.oracle_text)
        text2 == Lower(card2.oracle_text)
    IN  AppendIf(/\ Str.deathtouch \in keywords1
                 /\ (Str.first_strike \in keywords2 \/ Str.double_strike \in keywords2)
                 /\ Contains(Str.target_creature_gains, text2),
            Interaction(card2.id, card1.id, "buffs", 75,
                <<"First strike + deathtouch combo">>, FALSE))
        \o
        AppendIf(/\ Str.deathtouch \in keywords2
                 /\ (Str.first_strike \in keywords1 \/ Str.double_strike \in keywords1)
                 /\ Contains(Str.target_creature_gains, text1),
            Interaction(card1.id, card2.id, "buffs", 75,
                <<"First strike + deathtouch combo">>, FALSE))
        \o
        AppendIf(Str.lifelink \in keywords1 /\ Contains(Str.whenever_you_gain_life, text2),
            Interaction(card1.id, card2.id, "enables", 70,
                <<"triggers", card1.name, card2.name>>, FALSE))
        \o
        AppendIf(Str.lifelink \in keywords2 /\ Contains(Str.whenever_you_gain_life, text1),
            Interaction(card2.id, card1.id, "enables", 70,
                <<"triggers", card2.name, card1.name>>, FALSE))

\* `for card_type, pattern in self.tutor_type_patterns.items(): ...` from entry k on
RECURSIVE TutorFinds(_, _, _)
TutorFinds(source, target, k) ==
    IF k > Len(tutor_type_patterns) THEN <<>>
    ELSE AppendIf(/\ Search(tutor_type_patterns[k].pattern, source.oracle_text)
                  /\ Contains(Capitalize(tutor_type_patterns[k].card_type), target.type_line),
            Interaction(source.id, target.id, "tutors", 90,
                <<"can find", source.name, target.name>>, FALSE))
         \o TutorFinds(source, target, k + 1)

_check_tutor_relationship(card1, card2) ==
    TutorFinds(card1, card2, 1) \o TutorFinds(card2, card1, 1)

\* a pair detection in which a rule that fires suppresses the rules after it
_detect_pair_interactions_first_rule(card1, card2, h) ==
    IF _check_sacrifice_synergy(card1, card2) # <<>>
    THEN _check_sacrifice_synergy(card1, card2)
    ELSE _check_etb_synergy(card1, card2)
         \o _check_counter_synergy(card1, card2)
         \o _check_tribal_synergy(card1, card2, h)
         \o _check_type_matters(card1, card2, h)
         \o _check_mana_relationship(card1, card2)
         \o _check_keyword_synergy(card1, card2)
         \o _check_tutor_relationship(card1, card2)

_detect_pair_interactions(card1, card2, h) ==
    _check_sacrifice_synergy(card1, card2)
    \o _check_etb_synergy(card1, card2)
    \o _check_counter_synergy(card1, card2)
    \o _check_tribal_synergy(card1, card2, h)
    \o _check_type_matters(card1, card2, h)
    \o _check_mana_relationship(card1, card2)
    \o _check_keyword_synergy(card1, card2)
    \o _check_tutor_relationship(card1, card2)

(***************************************************************************)
(* The card pool                                                           *)
(***************************************************************************)

\* card1, card2, card3 of the smoke test
SmokePool ==
    {Card("c1", "Sacrifice Outlet", Str.Artifact, Text.c1, 2, <<>>),
     Card("c2", "Death Trigger", Str.Creature, Text.c2, 3, <<Str.Flying>>),
     Card("c3", "Keyword Lord", Str.Enchantment, Text.c3, 4, <<>>)}

\* the smoke test's cards and further cards: d1..d5 for the sacrifice rules,
\* d6 a second creature with two subtypes, whose text mentions both, d7 a land
\* without rules text, d8 a card without type line that adds counters when
\* life is gained, d9 a card that cares about counters, d10 a creature with
\* lifelink and without rules text
DetectPool ==
    SmokePool \cup
    {Card("d1", "Blood Seer", TypeLine.Vampire, Text.d1, 2, <<>>),
     Card("d2", "Token Altar", Str.Artifact, Text.d2, 1, <<>>),
     Card("d3", "Grave Pact", Str.Enchantment, Text.d3, 3, <<>>),
     Card("d4", "Carrion Mage", TypeLine.ZombieWizard, Text.d4, 4, <<>>),
     Card("d5", "Mayfly", TypeLine.Human, Text.d5, 1, <<>>),
     Card("d6", "Lich Lord", TypeLine.ZombieWizard, Text.d6, 5, <<>>),
     Card("d7", "Bog", Str.Land, <<>>, 0, <<>>),
     Card("d8", "Colossus", <<>>, Text.d8, 9, <<>>),
     Card("d9", "Tinkerer", TypeLine.Human, Text.d9, 8, <<>>),
     Card("d10", "Ghoul", TypeLine.ZombieWizard, <<>>, 2, <<Str.Lifelink>>)}

CardPool == DetectPool

CardIds == {c.id : c \in CardPool}

CardById(id) == CHOOSE c \in CardPool : c.id = id

\* _detect_pair_interactions over the card pool, computed once per pair and seed
PairInteractions ==
    [a \in CardIds, b \in CardIds, h \in HashSeeds |->
        _detect_pair_interactions(CardById(a), CardById(b), h)]

\* `for card2 in cards[i + 1:]` from position j on; cards are given by their ids
RECURSIVE DetectRow(_, _, _, _)
DetectRow(cards, i, j, h) ==
    IF j > Len(cards) THEN <<>>
    ELSE PairInteractions[cards[i], cards[j], h] \o DetectRow(cards, i, j + 1, h)

\* the outer loop with `for card2 in cards[i:]`, which pairs a card with itself
RECURSIVE DetectFromSelf(_, _, _)
DetectFromSelf(cards, i, h) ==
    IF i > Len(cards) THEN <<>>
    ELSE DetectRow(cards, i, i, h) \o DetectFromSelf(cards, i + 1, h)

\* `for i, card1 in enumerate(cards)` from position i on
RECURSIVE DetectFrom(_, _, _)
DetectFrom(cards, i, h) ==
    IF i > Len(cards) THEN <<>>
    ELSE DetectRow(cards, i, i + 1, h) \o DetectFrom(cards, i + 1, h)

detect_all(cards, h) == DetectFrom(cards, 1, h)

(***************************************************************************)
(* Bounds of the model                                                     *)
(***************************************************************************)

\* Deck.add_card calls before the graph is built
MaxAddCard == 3

\* graph operations after construction
MaxOps == 2

\* cards of a deck drawn from the whole pool (detection specification)
MaxDetectCards == 3

\* ids a caller passes to add_custom_interaction, remove_interaction and
\* add_interaction: two ids of pool cards and one id of no card
CallerIds == {"c1", "c2", "zz"}

\* weights a caller passes, in hundredths (100 is the default, 1.0)
CallerWeights == {60, 100, 150}

\* interaction types a caller passes
CallerTypes == {"synergy", "death_chain"}

(***************************************************************************)
(* Deck (core/models/deck.py)                                              *)
(***************************************************************************)

DeckEntry(card, quantity) == [card |-> card, quantity |-> quantity]

\* position of card_id in Deck.cards, 0 when absent
EntryIndex(cards, card_id) ==
    IF \E k \in DOMAIN cards : cards[k].card = card_id
    THEN CHOOSE k \in DOMAIN cards : cards[k].card = card_id
    ELSE 0

\* Deck.add_card(card, quantity)
add_card(cards, card_id, quantity) ==
    IF EntryIndex(cards, card_id) # 0
    THEN [cards EXCEPT ![EntryIndex(cards, card_id)].quantity = @ + quantity]
    ELSE Append(cards, DeckEntry(card_id, quantity))

\* Deck.total_cards()
RECURSIVE total_cards(_)
total_cards(cards) ==
    IF cards = <<>> THEN 0 ELSE Head(cards).quantity + total_cards(Tail(cards))

\* Deck.get_cards_list() in its place: one element per physical copy
get_cards_per_copy(cards) ==
    [p \in 1..total_cards(cards) |->
        cards[CHOOSE k \in DOMAIN cards :
                /\ total_cards(SubSeq(cards, 1, k - 1)) < p
                /\ p <= total_cards(SubSeq(cards, 1, k))].card]

\* Deck.get_unique_cards()
get_unique_cards(cards) == [k \in DOMAIN cards |-> cards[k].card]

(***************************************************************************)
(* networkx.Graph as DeckGraph uses it: nodes in insertion order, node     *)
(* attributes, and one record per edge with its two endpoints.             *)
(***************************************************************************)

EmptyGraph == [nodes |-> <<>>, data |-> <<>>, edges |-> <<>>]

\* attributes of a node that add_edge created: none
NoAttributes == [name |-> "Unknown", quantity |-> 0, mirrored |-> FALSE]

\* Graph.add_node(n, **attr)
add_node(g, n, attr) ==
    IF n \in Range(g.nodes)
    THEN [g EXCEPT !.data = [k \in DOMAIN g.nodes |->
                                IF g.nodes[k] = n THEN attr ELSE g.data[k]]]
    ELSE [g EXCEPT !.nodes = Append(g.nodes, n), !.data = Append(g.data, attr)]

\* index of the edge between u and v, 0 when there is none
EdgeIndex(g, u, v) ==
    IF \E k \in DOMAIN g.edges : {g.edges[k].u, g.edges[k].v} = {u, v}
    THEN CHOOSE k \in DOMAIN g.edges : {g.edges[k].u, g.edges[k].v} = {u, v}
    ELSE 0

\* has_edge as a directed graph would answer it: only an edge stored as (u, v)
has_edge_directed(g, u, v) ==
    \E k \in DOMAIN g.edges : g.edges[k].u = u /\ g.edges[k].v = v

\* Graph.has_edge(u, v)
has_edge(g, u, v) == EdgeIndex(g, u, v) # 0

\* what Graph.add_edge does to the node list: u, then v, when missing
WithEndpoints(g, u, v) ==
    LET g1 == IF u \in Range(g.nodes) THEN g ELSE add_node(g, u, NoAttributes)
    IN  IF v \in Range(g1.nodes) THEN g1 ELSE add_node(g1, v, NoAttributes)

\* Graph.add_edge(u, v, interaction_types=[t], weight=w, description=d): a new
\* edge, or the attributes of the edge that is there updated with the given ones
add_edge(g, u, v, types, weight, description) ==
    IF has_edge(g, u, v)
    THEN [g EXCEPT !.edges[EdgeIndex(g, u, v)] =
                [@ EXCEPT !.interaction_types = types, !.weight = weight,
                          !.description = description]]
    ELSE [WithEndpoints(g, u, v) EXCEPT !.edges =
            Append(@, [u |-> u, v |-> v, interaction_types |-> types,
                       weight |-> weight, description |-> description])]

\* Graph.remove_edge(u, v), the edge being there
remove_edge(g, u, v) ==
    [g EXCEPT !.edges =
        [k \in 1..(Len(g.edges) - 1) |->
            IF k < EdgeIndex(g, u, v) THEN g.edges[k] ELSE g.edges[k + 1]]]

\* Graph.degree(n): a self-loop counts twice
degree(g, n) ==
    Cardinality({k \in DOMAIN g.edges : g.edges[k].u = n})
    + Cardinality({k \in DOMAIN g.edges : g.edges[k].v = n})

\* networkx.density(G) of an undirected graph, as <<numerator, denominator>>
density(g) ==
    IF Len(g.edges) = 0 \/ Len(g.nodes) <= 1 THEN <<0, 1>>
    ELSE <<2 * Len(g.edges), Len(g.nodes) * (Len(g.nodes) - 1)>>

(***************************************************************************)
(* DeckGraph (core/graph/deck_graph.py)                                    *)
(***************************************************************************)

\* DeckGraph._build_nodes
RECURSIVE BuildFrom(_, _, _)
BuildFrom(g, cards, k) ==
    IF k > Len(cards) THEN g
    ELSE BuildFrom(
            add_node(g, cards[k].card,
                [name |-> CardById(cards[k].card).name,
                 quantity |-> cards[k].quantity, mirrored |-> TRUE]),
            cards, k + 1)

_build_nodes(cards) == BuildFrom(EmptyGraph, cards, 1)

\* add_interaction taking the weight of the latest interaction instead of the maximum
add_interaction_last_weight(g, interaction) ==
    IF has_edge(g, interaction.source_id, interaction.target_id)
    THEN LET k == EdgeIndex(g, interaction.source_id, interaction.target_id)
         IN  [g EXCEPT !.edges[k].interaction_types =
                            Append(@, interaction.interaction_type),
                       !.edges[k].weight = interaction.weight]
    ELSE add_edge(g, interaction.source_id, interaction.target_id,
                  <<interaction.interaction_type>>, interaction.weight,
                  interaction.description)

\* add_interaction letting a heavier interaction replace the edge's description
add_interaction_heaviest_description(g, interaction) ==
    IF has_edge(g, interaction.source_id, interaction.target_id)
    THEN LET k == EdgeIndex(g, interaction.source_id, interaction.target_id)
         IN  [g EXCEPT !.edges[k].interaction_types =
                            Append(@, interaction.interaction_type),
                       !.edges[k].description =
                            IF interaction.weight > g.edges[k].weight
                            THEN interaction.description ELSE @,
                       !.edges[k].weight = Max(@, interaction.weight)]
    ELSE add_edge(g, interaction.source_id, interaction.target_id,
                  <<interaction.interaction_type>>, interaction.weight,
                  interaction.description)

\* add_interaction leaving the weight of an edge that exists as it is
add_interaction_first_weight(g, interaction) ==
    IF has_edge(g, interaction.source_id, interaction.target_id)
    THEN LET k == EdgeIndex(g, interaction.source_id, interaction.target_id)
         IN  [g EXCEPT !.edges[k].interaction_types =
                            Append(@, interaction.interaction_type)]
    ELSE add_edge(g, interaction.source_id, interaction.target_id,
                  <<interaction.interaction_type>>, interaction.weight,
                  interaction.description)

\* DeckGraph.add_interaction
add_interaction(g, interaction) ==
    IF has_edge(g, interaction.source_id, interaction.target_id)
    THEN LET k == EdgeIndex(g, interaction.source_id, interaction.target_id)
         IN  [g EXCEPT !.edges[k].interaction_types =
                            Append(@, interaction.interaction_type),
                       !.edges[k].weight = Max(@, interaction.weight)]
    ELSE add_edge(g, interaction.source_id, interaction.target_id,
                  <<interaction.interaction_type>>, interaction.weight,
                  interaction.description)

\* `for interaction in interactions: self.add_interaction(interaction)`
RECURSIVE Ingest(_, _)
Ingest(g, list) ==
    IF list = <<>> THEN g ELSE Ingest(add_interaction(g, Head(list)), Tail(list))

\* a removal that only finds the edge under the argument order it was stored in
remove_interaction_ordered(g, source_id, target_id) ==
    IF has_edge_directed(g, source_id, target_id)
    THEN remove_edge(g, source_id, target_id)
    ELSE g

\* DeckGraph.remove_interaction
remove_interaction(g, source_id, target_id) ==
    IF has_edge(g, source_id, target_id) THEN remove_edge(g, source_id, target_id) ELSE g

(***************************************************************************)
(* GraphAnalyzer (core/graph/analysis.py).  A metric is a fraction         *)
(* <<numerator, denominator>> with a positive denominator.  What networkx  *)
(* computes by iteration or by shortest paths (betweenness, closeness,     *)
(* eigenvector, pagerank, clustering) is an input of the call: any map     *)
(* from the nodes to LibValues.                                            *)
(***************************************************************************)

RatLess(a, b) == a[1] * b[2] < b[1] * a[2]

RatLeq(a, b) == a[1] * b[2] <= b[1] * a[2]

RatEq(a, b) == a[1] * b[2] = b[1] * a[2]

RatAdd(a, b) == <<a[1] * b[2] + b[1] * a[2], a[2] * b[2]>>

\* a * (k / 10)
RatTenths(a, k) == <<a[1] * k, a[2] * 10>>

Zero == <<0, 1>>

\* values a networkx metric may take in the model: 0 and 1
LibValues == {<<0, 1>>, <<1, 1>>}

\* the maps networkx may return for graph g: one value per node, by position
LibMaps(g) == [1..Len(g.nodes) -> LibValues]

\* {} 
EmptyMap == <<>>

\* dict.get(card_id, 0) on a map kept by node position
Get(g, map, k) == IF k \in DOMAIN map THEN map[k] ELSE Zero

\* networkx.degree_centrality(G), by node position
degree_centrality(g) ==
    IF Len(g.nodes) <= 1 THEN [k \in DOMAIN g.nodes |-> <<1, 1>>]
    ELSE [k \in DOMAIN g.nodes |-> <<degree(g, g.nodes[k]), Len(g.nodes) - 1>>]

\* the guard letting a single-node graph through to the library
GuardedCentralityFromOneNode(g, name, lib) ==
    IF Len(g.nodes) < 1
    THEN [value |-> EmptyMap, called |-> {}, raised |-> FALSE]
    ELSE [value |-> lib, called |-> {name}, raised |-> FALSE]

\* GraphAnalyzer.betweenness_centrality, closeness_centrality and pagerank:
\* the guard, then the library call `name` returning `lib`
GuardedCentrality(g, name, lib) ==
    IF Len(g.nodes) < 2
    THEN [value |-> EmptyMap, called |-> {}, raised |-> FALSE]
    ELSE [value |-> lib, called |-> {name}, raised |-> FALSE]

betweenness_centrality(g, lib) == GuardedCentrality(g, "nx.betweenness_centrality", lib)

closeness_centrality(g, lib) == GuardedCentrality(g, "nx.closeness_centrality", lib)

pagerank(g, lib) == GuardedCentrality(g, "nx.pagerank", lib)

\* an eigenvector_centrality without the except clause
eigenvector_centrality_uncaught(g, lib, converged) ==
    IF Len(g.nodes) < 2
    THEN [value |-> EmptyMap, called |-> {}, raised |-> FALSE, max_iter |-> 0]
    ELSE [value |-> IF converged THEN lib ELSE EmptyMap,
          called |-> {"nx.eigenvector_centrality"},
          raised |-> ~converged,
          max_iter |-> 500]

\* GraphAnalyzer.eigenvector_centrality: converged = FALSE when the power
\* iteration raises PowerIterationFailedConvergence after max_iter=500
\* (networkx raises NetworkXPointlessConcept, which is not caught, on a graph
\* with no node)
eigenvector_centrality(g, lib, converged) ==
    IF Len(g.nodes) < 2
    THEN [value |-> EmptyMap, called |-> {}, raised |-> FALSE, max_iter |-> 0]
    ELSE [value |-> IF converged THEN lib ELSE EmptyMap,
          called |-> {"nx.eigenvector_centrality"},
          raised |-> Len(g.nodes) = 0,
          max_iter |-> 500]

\* GraphAnalyzer.clustering_coefficient
clustering_coefficient(g, lib) ==
    [value |-> lib, called |-> {"nx.clustering"}, raised |-> FALSE]

\* GraphAnalyzer.average_clustering; lib is networkx's average
average_clustering(g, lib) ==
    IF Len(g.nodes) < 3
    THEN [value |-> Zero, called |-> {}, raised |-> FALSE]
    ELSE [value |-> lib, called |-> {"nx.average_clustering"}, raised |-> FALSE]

\* a search that stops at the neighbours of S
ClosureOneStep(g, S) ==
    S \cup {g.edges[k].v : k \in {i \in DOMAIN g.edges : g.edges[i].u \in S}}
      \cup {g.edges[k].u : k \in {i \in DOMAIN g.edges : g.edges[i].v \in S}}

\* the nodes a breadth-first search from the nodes of S visits
RECURSIVE Closure(_, _)
Closure(g, S) ==
    LET next == S \cup {g.edges[k].v : k \in {i \in DOMAIN g.edges : g.edges[i].u \in S}}
                  \cup {g.edges[k].u : k \in {i \in DOMAIN g.edges : g.edges[i].v \in S}}
    IN  IF next = S THEN S ELSE Closure(g, next)

\* nx.connected_components(G) from node position k on: a search from every node
\* not yet seen; list(component) iterates a set of ids, in an order the hash
\* seed h fixes
RECURSIVE ComponentsFrom(_, _, _, _)
ComponentsFrom(g, k, seen, h) ==
    IF k > Len(g.nodes) THEN <<>>
    ELSE IF g.nodes[k] \in seen THEN ComponentsFrom(g, k + 1, seen, h)
    ELSE LET component == Closure(g, {g.nodes[k]})
             listed == IF h = 0 THEN Filter(g.nodes, component)
                       ELSE Reverse(Filter(g.nodes, component))
         IN  <<listed>> \o ComponentsFrom(g, k + 1, seen \cup component, h)

\* GraphAnalyzer.connected_components
connected_components(g, h) == ComponentsFrom(g, 1, {}, h)

\* a detect_communities that lets the optimizer's exception through
detect_communities_uncaught(g, h, outcome, labels) ==
    IF Len(g.nodes) < 2
    THEN [value |-> <<g.nodes>>, raised |-> FALSE]
    ELSE IF outcome = "ok"
    THEN LET NonEmpty(c) == c # <<>>
             listed == [l \in DOMAIN g.nodes |->
                          Filter(g.nodes, {g.nodes[k] : k \in {i \in DOMAIN g.nodes : labels[i] = l}})]
         IN  [value |-> SelectSeq(IF h = 0 THEN listed
                                  ELSE [l \in DOMAIN listed |-> Reverse(listed[l])],
                                  NonEmpty),
              raised |-> FALSE]
    ELSE [value |-> <<>>, raised |-> TRUE]

\* GraphAnalyzer.detect_communities.  outcome: what importing and running
\* louvain_communities does ("ok", "raises", "import_error"); labels: the
\* community the optimizer puts each node in, by node position, when it succeeds
detect_communities(g, h, outcome, labels) ==
    IF Len(g.nodes) < 2
    THEN [value |-> <<g.nodes>>, raised |-> FALSE]
    ELSE IF outcome = "ok"
    THEN LET NonEmpty(c) == c # <<>>
             listed == [l \in DOMAIN g.nodes |->
                          Filter(g.nodes, {g.nodes[k] : k \in {i \in DOMAIN g.nodes : labels[i] = l}})]
         IN  [value |-> SelectSeq(IF h = 0 THEN listed
                                  ELSE [l \in DOMAIN listed |-> Reverse(listed[l])],
                                  NonEmpty),
              raised |-> FALSE]
    ELSE [value |-> connected_components(g, h), raised |-> FALSE]

\* sum of the edge weights, in hundredths
RECURSIVE SumWeights(_)
SumWeights(es) == IF es = <<>> THEN 0 ELSE Head(es).weight + SumWeights(Tail(es))

\* GraphAnalyzer.synergy_score
synergy_score(g) ==
    IF Len(g.nodes) < 2 THEN Zero
    ELSE LET avg_weight == IF Len(g.edges) > 0
                           THEN <<SumWeights(g.edges), 100 * Len(g.edges)>>
                           ELSE Zero
         IN  RatAdd(RatTenths(density(g), 5), RatTenths(avg_weight, 5))

\* GraphAnalyzer.weak_links(threshold): node positions, in iteration order
weak_links(g, threshold) ==
    LET cent == degree_centrality(g)
    IN  Filter([k \in DOMAIN g.nodes |-> k],
               {k \in DOMAIN g.nodes : RatLess(cent[k], threshold)})

DefaultThreshold == <<3, 10>>

\* the scores entry of key_cards for the node at position k
ScoreEntry(g, k, deg, btw, pr, cl) ==
    [card_id |-> g.nodes[k],
     composite |-> RatAdd(RatAdd(RatTenths(Get(g, deg, k), 3), RatTenths(Get(g, btw, k), 3)),
                          RatAdd(RatTenths(Get(g, pr, k), 3), RatTenths(Get(g, cl, k), 1))),
     degree |-> Get(g, deg, k),
     betweenness |-> Get(g, btw, k),
     pagerank |-> Get(g, pr, k),
     clustering |-> Get(g, cl, k)]

\* an unstable descending sort: x goes before the entries of equal composite
InsertDescBeforeEqual(sorted, x) ==
    LET smaller == {k \in DOMAIN sorted : RatLeq(sorted[k].composite, x.composite)}
        at == IF smaller = {} THEN Len(sorted) + 1
              ELSE CHOOSE k \in smaller : \A m \in smaller : k <= m
    IN  SubSeq(sorted, 1, at - 1) \o <<x>> \o SubSeq(sorted, at, Len(sorted))

\* sorted(..., key=composite, reverse=True) is stable: x goes before the first
\* entry whose composite is strictly smaller
InsertDesc(sorted, x) ==
    LET smaller == {k \in DOMAIN sorted : RatLess(sorted[k].composite, x.composite)}
        at == IF smaller = {} THEN Len(sorted) + 1
              ELSE CHOOSE k \in smaller : \A m \in smaller : k <= m
    IN  SubSeq(sorted, 1, at - 1) \o <<x>> \o SubSeq(sorted, at, Len(sorted))

RECURSIVE SortDescFrom(_, _, _)
SortDescFrom(sorted, items, k) ==
    IF k > Len(items) THEN sorted
    ELSE SortDescFrom(InsertDesc(sorted, items[k]), items, k + 1)

SortedDesc(items) == SortDescFrom(<<>>, items, 1)

\* Python's s[:n]
SliceTo(s, n) ==
    IF n >= 0 THEN SubSeq(s, 1, Min(n, Len(s)))
    ELSE SubSeq(s, 1, Max(Len(s) + n, 0))

\* GraphAnalyzer.key_cards(top_n)
key_cards(g, top_n, btw_lib, pr_lib, cl_lib) ==
    LET deg == degree_centrality(g)
        btw == betweenness_centrality(g, btw_lib).value
        pr == pagerank(g, pr_lib).value
        cl == clustering_coefficient(g, cl_lib).value
        scores == [k \in DOMAIN g.nodes |-> ScoreEntry(g, k, deg, btw, pr, cl)]
    IN  SliceTo(SortedDesc(scores), top_n)

(***************************************************************************)
(* Type distribution and export                                            *)
(***************************************************************************)

\* GraphAnalyzer.interaction_type_distribution(): one is added for every entry
\* of every edge's interaction_types list; the keys are the types met
interaction_type_distribution(g) ==
    LET met == UNION {Range(g.edges[k].interaction_types) : k \in DOMAIN g.edges}
        entries(k, itype) ==
            Cardinality({i \in DOMAIN g.edges[k].interaction_types :
                            g.edges[k].interaction_types[i] = itype})
        total[k \in 0..Len(g.edges)] ==
            [itype \in met |->
                IF k = 0 THEN 0 ELSE total[k - 1][itype] + entries(k, itype)]
    IN  total[Len(g.edges)]

\* to_cytoscape_format's "Build edges" loop: the color and the label are looked
\* up under the primary type, the first of the edge's types
ExportedEdges(g) ==
    [k \in DOMAIN g.edges |->
        [source |-> g.edges[k].u,
         target |-> g.edges[k].v,
         interaction_types |-> g.edges[k].interaction_types,
         primary_type |-> IF g.edges[k].interaction_types # <<>>
                          THEN g.edges[k].interaction_types[1]
                          ELSE "synergy",
         weight |-> g.edges[k].weight]]

\* DeckGraph.to_cytoscape_format(): the exported nodes, edges and stats; the
\* density is a rational <<numerator, denominator>>
to_cytoscape_format(g) ==
    LET nodes == [k \in DOMAIN g.nodes |->
                    [id |-> g.nodes[k],
                     label |-> g.data[k].name,
                     size |-> 30 + (degree(g, g.nodes[k]) * 5)]]
        edges == ExportedEdges(g)
    IN  [nodes |-> nodes,
         edges |-> edges,
         stats |-> [total_nodes |-> Len(nodes),
                    total_edges |-> Len(edges),
                    density |-> IF Len(nodes) > 1 THEN density(g) ELSE <<0, 1>>,
                    connected_components |-> Len(connected_components(g, 0))]]

(***************************************************************************)
(* KeywordTagger and SynergyWeighter (tagging.py, synergy_weighter.py)     *)
(***************************************************************************)

\* KeywordTagger.KEYWORD_CATEGORIES: the dict's items in insertion order, every
\* keyword spelled character by character
KEYWORD_CATEGORIES ==
    <<[category |-> "evasion",
       keywords |->
         {<<"f","l","y","i","n","g">>, <<"m","e","n","a","c","e">>,
          <<"t","r","a","m","p","l","e">>, <<"i","n","t","i","m","i","d","a","t","e">>,
          <<"f","e","a","r">>, <<"s","k","u","l","k">>,
          <<"h","o","r","s","e","m","a","n","s","h","i","p">>, <<"s","h","a","d","o","w">>,
          <<"p","l","a","i","n","s","w","a","l","k">>,
          <<"i","s","l","a","n","d","w","a","l","k">>,
          <<"s","w","a","m","p","w","a","l","k">>,
          <<"m","o","u","n","t","a","i","n","w","a","l","k">>,
          <<"f","o","r","e","s","t","w","a","l","k">>, <<"l","a","n","d","w","a","l","k">>,
          <<"u","n","b","l","o","c","k","a","b","l","e">>}],
      [category |-> "combat",
       keywords |->
         {<<"f","i","r","s","t"," ","s","t","r","i","k","e">>,
          <<"d","o","u","b","l","e"," ","s","t","r","i","k","e">>,
          <<"d","e","a","t","h","t","o","u","c","h">>,
          <<"v","i","g","i","l","a","n","c","e">>, <<"r","e","a","c","h">>,
          <<"t","r","a","m","p","l","e">>, <<"r","a","m","p","a","g","e">>,
          <<"f","l","a","n","k","i","n","g">>, <<"b","u","s","h","i","d","o">>,
          <<"b","a","t","t","l","e"," ","c","r","y">>, <<"m","e","l","e","e">>,
          <<"m","e","n","t","o","r">>, <<"t","r","a","i","n","i","n","g">>}],
      [category |-> "protection",
       keywords |->
         {<<"h","e","x","p","r","o","o","f">>, <<"s","h","r","o","u","d">>,
          <<"i","n","d","e","s","t","r","u","c","t","i","b","l","e">>,
          <<"p","r","o","t","e","c","t","i","o","n">>, <<"w","a","r","d">>,
          <<"d","e","f","e","n","d","e","r">>, <<"a","b","s","o","r","b">>,
          <<"r","e","g","e","n","e","r","a","t","e">>}],
      [category |-> "speed",
       keywords |->
         {<<"h","a","s","t","e">>, <<"f","l","a","s","h">>,
          <<"s","p","l","i","t"," ","s","e","c","o","n","d">>}],
      [category |-> "recursion",
       keywords |->
         {<<"p","e","r","s","i","s","t">>, <<"u","n","d","y","i","n","g">>,
          <<"u","n","e","a","r","t","h">>, <<"e","m","b","a","l","m">>,
          <<"e","t","e","r","n","a","l","i","z","e">>, <<"e","n","c","o","r","e">>,
          <<"e","s","c","a","p","e">>, <<"r","e","t","r","a","c","e">>,
          <<"j","u","m","p","-","s","t","a","r","t">>,
          <<"f","l","a","s","h","b","a","c","k">>, <<"a","f","t","e","r","m","a","t","h">>,
          <<"r","e","c","o","v","e","r">>, <<"d","r","e","d","g","e">>,
          <<"s","c","a","v","e","n","g","e">>}],
      [category |-> "economy",
       keywords |->
         {<<"c","o","n","v","o","k","e">>, <<"d","e","l","v","e">>,
          <<"a","f","f","i","n","i","t","y">>, <<"i","m","p","r","o","v","i","s","e">>,
          <<"a","s","s","i","s","t">>, <<"b","a","r","g","a","i","n">>,
          <<"o","f","f","e","r","i","n","g">>, <<"t","r","e","a","s","u","r","e">>,
          <<"g","o","l","d">>}],
      [category |-> "advantage",
       keywords |->
         {<<"i","n","v","e","s","t","i","g","a","t","e">>, <<"c","l","u","e">>,
          <<"c","y","c","l","i","n","g">>, <<"m","o","n","a","r","c","h">>,
          <<"i","n","i","t","i","a","t","i","v","e">>, <<"c","a","s","c","a","d","e">>,
          <<"d","i","s","c","o","v","e","r">>, <<"e","x","p","l","o","r","e">>,
          <<"s","c","r","y">>, <<"s","u","r","v","e","i","l">>,
          <<"f","a","t","e","s","e","a","l">>}],
      [category |-> "removal",
       keywords |->
         {<<"d","e","s","t","r","o","y">>, <<"e","x","i","l","e">>, <<"f","i","g","h","t">>,
          <<"b","i","t","e">>, <<"s","a","c","r","i","f","i","c","e">>,
          <<"a","n","n","i","h","i","l","a","t","o","r">>}],
      [category |-> "tokens",
       keywords |->
         {<<"p","o","p","u","l","a","t","e">>,
          <<"p","r","o","l","i","f","e","r","a","t","e">>, <<"a","m","a","s","s">>,
          <<"i","n","c","u","b","a","t","e">>, <<"f","a","b","r","i","c","a","t","e">>,
          <<"l","i","v","i","n","g"," ","w","e","a","p","o","n">>,
          <<"a","f","t","e","r","l","i","f","e">>, <<"c","r","e","a","t","e">>}],
      [category |-> "counters",
       keywords |->
         {<<"p","r","o","l","i","f","e","r","a","t","e">>, <<"s","u","p","p","o","r","t">>,
          <<"b","o","l","s","t","e","r">>, <<"a","d","a","p","t">>,
          <<"o","u","t","l","a","s","t">>, <<"e","v","o","l","v","e">>,
          <<"g","r","a","f","t">>, <<"m","o","d","u","l","a","r">>,
          <<"s","c","a","v","e","n","g","e">>, <<"d","e","v","o","u","r">>,
          <<"r","i","o","t">>, <<"m","e","n","t","o","r">>}],
      [category |-> "graveyard",
       keywords |->
         {<<"m","i","l","l">>, <<"s","u","r","v","e","i","l">>, <<"d","r","e","d","g","e">>,
          <<"d","e","l","v","e">>, <<"e","s","c","a","p","e">>,
          <<"f","l","a","s","h","b","a","c","k">>, <<"u","n","e","a","r","t","h">>,
          <<"t","h","r","e","s","h","o","l","d">>, <<"d","e","l","i","r","i","u","m">>}]>>

\* KeywordTagger.get_category: the first category, in the dict's order, whose
\* keyword set holds keyword.lower(); "other" when none does
RECURSIVE FirstCategory(_, _)
FirstCategory(keyword_lower, k) ==
    IF k > Len(KEYWORD_CATEGORIES) THEN "other"
    ELSE IF keyword_lower \in KEYWORD_CATEGORIES[k].keywords
         THEN KEYWORD_CATEGORIES[k].category
         ELSE FirstCategory(keyword_lower, k + 1)

get_category(keyword) == FirstCategory(Lower(keyword), 1)

\* SynergyWeighter.DEFAULT_CATEGORY_WEIGHTS as the class body sets it, in tenths
DefaultCategoryWeights ==
    [evasion |-> 12, combat |-> 11, protection |-> 13, speed |-> 11,
     recursion |-> 15, economy |-> 14, advantage |-> 13, removal |-> 12,
     tokens |-> 15, counters |-> 15, graveyard |-> 14, other |-> 10]

\* SynergyWeighter.DEFAULT_CONSTANT_C, in tenths
DEFAULT_CONSTANT_C == 50

\* dict.copy() followed by dict.update(overrides)
CopyUpdate(table, overrides) ==
    [c \in DOMAIN table \cup DOMAIN overrides |->
        IF c \in DOMAIN overrides THEN overrides[c] ELSE table[c]]

\* a constructor that updates the class table itself instead of a copy of it
SynergyWeighterInPlace(class_table, category_weights) ==
    [category_weights |->
        IF category_weights # EmptyMap
        THEN CopyUpdate(class_table, category_weights)
        ELSE class_table,
     DEFAULT_CATEGORY_WEIGHTS |->
        IF category_weights # EmptyMap
        THEN CopyUpdate(class_table, category_weights)
        ELSE class_table]

\* SynergyWeighter.__init__(category_weights), with the class table as it is at
\* the call: the instance's table and the class table after the call
SynergyWeighter(class_table, category_weights) ==
    [category_weights |->
        IF category_weights # EmptyMap
        THEN CopyUpdate(class_table, category_weights)
        ELSE class_table,
     DEFAULT_CATEGORY_WEIGHTS |-> class_table]

\* SynergyWeighter.check_direct_reference
check_direct_reference(card1, card2) ==
    \/ Contains(card1.name, card2.oracle_text)
    \/ Contains(card2.name, card1.oracle_text)

\* the loop of calculate_synergy_score over interaction_tags[k..], in tenths
RECURSIVE TagScore(_, _, _)
TagScore(category_weights, interaction_tags, k) ==
    IF k > Len(interaction_tags) THEN 0
    ELSE LET category == get_category(interaction_tags[k])
             alpha == IF category \in DOMAIN category_weights
                      THEN category_weights[category] ELSE 10
         IN  alpha + TagScore(category_weights, interaction_tags, k + 1)

\* SynergyWeighter.calculate_synergy_score, in tenths
calculate_synergy_score(category_weights, card1, card2, interaction_tags) ==
    TagScore(category_weights, interaction_tags, 1)
        + (IF check_direct_reference(card1, card2) THEN DEFAULT_CONSTANT_C ELSE 0)

(***************************************************************************)
(* State                                                                   *)
(***************************************************************************)

VARIABLES
    hashSeed,       \* the string hash seed of the process
    cards,          \* Deck.cards: the entries in insertion order
    built,          \* a DeckGraph has been constructed from the deck
    graph,          \* DeckGraph.graph
    interactions,   \* DeckGraph.interactions
    fed,            \* history: every interaction passed to add_interaction
    hist,           \* history: the graph operations called, in order
    result,         \* what the last GraphAnalyzer or SynergyWeighter call returned
    DEFAULT_CATEGORY_WEIGHTS,   \* the class attribute of SynergyWeighter
    weighters,      \* the SynergyWeighter instances constructed, in order
    serialized,     \* add_interaction is only called while no other call runs
    workers,        \* the add_interaction calls of the threads: position and locals
    lists           \* the interaction_types list objects the threads made or hold

vars == <<hashSeed, cards, built, graph, interactions, fed, hist, result,
          DEFAULT_CATEGORY_WEIGHTS, weighters, serialized, workers, lists>>

\* the state of threads calling add_interaction, which no single-threaded
\* operation touches
raceVars == <<serialized, workers, lists>>

\* the state of the weighter classes, which no graph operation touches
weighterVars == <<DEFAULT_CATEGORY_WEIGHTS, weighters>>

NoResult == [op |-> "none"]

\* graph operations called after the constructor returned
OpsDone == Cardinality({k \in DOMAIN hist : hist[k] # "auto_detect"})

\* a Deck() with no cards, no DeckGraph yet
Init ==
    /\ hashSeed \in HashSeeds
    /\ cards = <<>>
    /\ built = FALSE
    /\ graph = EmptyGraph
    /\ interactions = <<>>
    /\ fed = <<>>
    /\ hist = <<>>
    /\ result = NoResult
    /\ DEFAULT_CATEGORY_WEIGHTS = DefaultCategoryWeights
    /\ weighters = <<>>
    /\ serialized = TRUE
    /\ workers = <<>>
    /\ lists = <<>>

\* deck.add_card(card, quantity) with a card of the smoke test
AddCard(id, quantity) ==
    /\ ~built
    /\ total_cards(cards) + quantity <= MaxAddCard
    /\ cards' = add_card(cards, id, quantity)
    /\ UNCHANGED <<weighterVars, raceVars, hashSeed, built, graph, interactions, fed, hist, result>>

\* DeckGraph(deck, auto_detect)
Construct(auto_detect) ==
    /\ ~built
    /\ built' = TRUE
    /\ LET detected == detect_all(get_unique_cards(cards), hashSeed)
       IN  IF auto_detect
           THEN /\ interactions' = detected
                /\ graph' = Ingest(_build_nodes(cards), detected)
                /\ fed' = detected
                /\ hist' = <<"auto_detect">>
           ELSE /\ interactions' = <<>>
                /\ graph' = _build_nodes(cards)
                /\ fed' = <<>>
                /\ hist' = <<>>
    /\ UNCHANGED <<weighterVars, raceVars, hashSeed, cards, result>>

\* DeckGraph.detect_interactions(); line 64 of deck_graph.py is read as
\* `detector = InteractionDetector()`, without the stray letter before it
DetectInteractions ==
    /\ built
    /\ OpsDone < MaxOps
    /\ LET detected == detect_all(get_unique_cards(cards), hashSeed)
       IN  /\ interactions' = detected
           /\ graph' = Ingest(graph, detected)
           /\ fed' = fed \o detected
    /\ hist' = Append(hist, "detect")
    /\ UNCHANGED <<weighterVars, raceVars, hashSeed, cards, built, result>>

\* DeckGraph.add_interaction(interaction), called by a user of the class
AddInteraction(source_id, target_id) ==
    /\ built
    /\ OpsDone < MaxOps
    /\ LET interaction == Interaction(source_id, target_id, "combos_with", 90,
                                      <<"direct">>, FALSE)
       IN  /\ graph' = add_interaction(graph, interaction)
           /\ fed' = Append(fed, interaction)
    /\ hist' = Append(hist, "add")
    /\ UNCHANGED <<weighterVars, raceVars, hashSeed, cards, built, interactions, result>>

\* DeckGraph.add_custom_interaction(source_id, target_id, interaction_type, weight)
AddCustomInteraction(source_id, target_id, interaction_type, weight) ==
    /\ built
    /\ OpsDone < MaxOps
    /\ LET interaction == Interaction(source_id, target_id, interaction_type, weight,
                                      None, FALSE)
       IN  /\ interactions' = Append(interactions, interaction)
           /\ graph' = add_interaction(graph, interaction)
           /\ fed' = Append(fed, interaction)
    /\ hist' = Append(hist, "custom")
    /\ UNCHANGED <<weighterVars, raceVars, hashSeed, cards, built, result>>

\* DeckGraph.remove_interaction(source_id, target_id)
RemoveInteraction(source_id, target_id) ==
    /\ built
    /\ OpsDone < MaxOps
    /\ graph' = remove_interaction(graph, source_id, target_id)
    /\ hist' = Append(hist, "remove")
    /\ UNCHANGED <<weighterVars, raceVars, hashSeed, cards, built, interactions, fed, result>>

Next ==
    \/ \E c \in SmokePool, quantity \in 1..MaxAddCard : AddCard(c.id, quantity)
    \/ \E auto_detect \in BOOLEAN : Construct(auto_detect)
    \/ DetectInteractions
    \/ \E s \in CallerIds, t \in CallerIds : AddInteraction(s, t)
    \/ \E s \in CallerIds, t \in CallerIds, ty \in CallerTypes, w \in CallerWeights :
            AddCustomInteraction(s, t, ty, w)
    \/ \E s \in CallerIds, t \in CallerIds : RemoveInteraction(s, t)

Spec == Init /\ [][Next]_vars

(***************************************************************************)
(* Detection over the whole card pool: a deck of two or three distinct     *)
(* pool cards in any order, then the graph built from it.                  *)
(***************************************************************************)

\* the sequences of n distinct ids of pool cards
DistinctSeqs(n) ==
    {s \in [1..n -> CardIds] : \A i, j \in 1..n : i # j => s[i] # s[j]}

InitDetect ==
    /\ hashSeed \in HashSeeds
    /\ \E n \in 2..MaxDetectCards : \E s \in DistinctSeqs(n) :
            cards = [k \in 1..n |-> DeckEntry(s[k], 1)]
    /\ built = FALSE
    /\ graph = EmptyGraph
    /\ interactions = <<>>
    /\ fed = <<>>
    /\ hist = <<>>
    /\ result = NoResult
    /\ DEFAULT_CATEGORY_WEIGHTS = DefaultCategoryWeights
    /\ weighters = <<>>
    /\ serialized = TRUE
    /\ workers = <<>>
    /\ lists = <<>>

NextDetect ==
    \/ \E auto_detect \in BOOLEAN : Construct(auto_detect)
    \/ DetectInteractions

SpecDetect == InitDetect /\ [][NextDetect]_vars

(***************************************************************************)
(* GraphAnalyzer calls on the graph of a constructed DeckGraph             *)
(***************************************************************************)

\* largest top_n passed to key_cards; the smallest is -1
MaxTopN == 4

TopNs == (-1)..MaxTopN

\* a call of one of the guarded methods, on a graph no analysis has been run on
\* (the analyzer only reads the graph, so one call per behaviour shows them all)
Centrality(op, r) ==
    /\ built
    /\ result = NoResult
    /\ result' = [op |-> op, value |-> r.value, called |-> r.called, raised |-> r.raised]
    /\ UNCHANGED <<weighterVars, raceVars, hashSeed, cards, built, graph, interactions, fed, hist>>

BetweennessCentrality ==
    \E lib \in LibMaps(graph) :
        Centrality("betweenness_centrality", betweenness_centrality(graph, lib))

ClosenessCentrality ==
    \E lib \in LibMaps(graph) :
        Centrality("closeness_centrality", closeness_centrality(graph, lib))

\* GraphAnalyzer.eigenvector_centrality(); whether the power iteration
\* converged, and the budget it was given, are kept in the result
EigenvectorCentrality ==
    /\ built
    /\ result = NoResult
    /\ \E lib \in LibMaps(graph), converged \in BOOLEAN :
            LET r == eigenvector_centrality(graph, lib, converged)
            IN  result' = [op |-> "eigenvector_centrality", value |-> r.value,
                           called |-> r.called, raised |-> r.raised,
                           converged |-> converged, max_iter |-> r.max_iter]
    /\ UNCHANGED <<weighterVars, raceVars, hashSeed, cards, built, graph, interactions, fed, hist>>

Pagerank ==
    \E lib \in LibMaps(graph) : Centrality("pagerank", pagerank(graph, lib))

AverageClustering ==
    \E lib \in LibValues : Centrality("average_clustering", average_clustering(graph, lib))

\* GraphAnalyzer.key_cards(top_n); the maps networkx returned are kept in the result
KeyCards(top_n) ==
    /\ built
    /\ result = NoResult
    /\ \E btw_lib \in LibMaps(graph), pr_lib \in LibMaps(graph), cl_lib \in LibMaps(graph) :
            result' = [op |-> "key_cards", top_n |-> top_n,
                       value |-> key_cards(graph, top_n, btw_lib, pr_lib, cl_lib),
                       btw_lib |-> btw_lib, pr_lib |-> pr_lib, cl_lib |-> cl_lib]
    /\ UNCHANGED <<weighterVars, raceVars, hashSeed, cards, built, graph, interactions, fed, hist>>

\* GraphAnalyzer.detect_communities(); the optimizer's outcome is kept in the result
DetectCommunities ==
    /\ built
    /\ result = NoResult
    /\ \E outcome \in {"ok", "raises", "import_error"},
          labels \in [DOMAIN graph.nodes -> DOMAIN graph.nodes] :
            LET r == detect_communities(graph, hashSeed, outcome, labels)
            IN  result' = [op |-> "detect_communities", outcome |-> outcome,
                           value |-> r.value, raised |-> r.raised]
    /\ UNCHANGED <<weighterVars, raceVars, hashSeed, cards, built, graph, interactions, fed, hist>>

NextAnalysis ==
    \/ \E c \in SmokePool, quantity \in 1..MaxAddCard : AddCard(c.id, quantity)
    \/ \E auto_detect \in BOOLEAN : Construct(auto_detect)
    \/ result = NoResult /\ DetectInteractions
    \/ BetweennessCentrality
    \/ ClosenessCentrality
    \/ EigenvectorCentrality
    \/ Pagerank
    \/ AverageClustering
    \/ \E top_n \in TopNs : KeyCards(top_n)
    \/ DetectCommunities

SpecAnalysis == Init /\ [][NextAnalysis]_vars

(***************************************************************************)
(* SynergyWeighter instances and their scores                              *)
(***************************************************************************)

\* most SynergyWeighter instances constructed
MaxWeighters == 2

\* longest interaction_tags list passed to calculate_synergy_score
MaxTags == 2

\* cards passed to the weighter, their names spelled character by character:
\* Bat names Imp, Owl and Fox name each other, Elk names nobody
WeighterPool ==
    {\* Imp: "Flying."
     Card("w1", <<"I","m","p">>, Str.Creature,
          <<"F","l","y","i","n","g",".">>, 1, <<>>),
     \* Bat: "Search for Imp."
     Card("w2", <<"B","a","t">>, Str.Creature,
          <<"S","e","a","r","c","h"," ","f","o","r"," ","I","m","p",".">>, 1, <<>>),
     \* Owl: "Copy Fox."
     Card("w3", <<"O","w","l">>, Str.Creature,
          <<"C","o","p","y"," ","F","o","x",".">>, 1, <<>>),
     \* Fox: "Copy Owl."
     Card("w4", <<"F","o","x">>, Str.Creature,
          <<"C","o","p","y"," ","O","w","l",".">>, 1, <<>>),
     \* Elk: "imp and bat."
     Card("w5", <<"E","l","k">>, Str.Creature,
          <<"i","m","p"," ","a","n","d"," ","b","a","t",".">>, 1, <<>>)}

\* tags passed to the weighter: category names, keywords in either case, a
\* keyword of two categories and an unknown word
TagPool ==
    {<<"r","e","c","u","r","s","i","o","n">>,
     <<"g","r","a","v","e","y","a","r","d">>,
     <<"D","r","e","d","g","e">>,
     <<"t","r","a","m","p","l","e">>,
     <<"m","i","l","l">>,
     <<"z","z","z">>}

TagLists == UNION {[1..n -> TagPool] : n \in 0..MaxTags}

\* the category_weights argument: None, and tables overriding a default
\* category, the "other" weight, or adding a category
OverrideTables ==
    {EmptyMap, [recursion |-> 30], [other |-> 20, graveyard |-> 5], [tribal |-> 70]}

\* SynergyWeighter(category_weights)
NewWeighter(category_weights) ==
    /\ Len(weighters) < MaxWeighters
    /\ LET made == SynergyWeighter(DEFAULT_CATEGORY_WEIGHTS, category_weights)
       IN  /\ weighters' = Append(weighters,
                                [category_weights |-> made.category_weights,
                                 overrides |-> category_weights])
           /\ DEFAULT_CATEGORY_WEIGHTS' = made.DEFAULT_CATEGORY_WEIGHTS
    /\ UNCHANGED <<raceVars, hashSeed, cards, built, graph, interactions, fed, hist, result>>

\* weighters[w].calculate_synergy_score(card1, card2, interaction_tags)
CalculateSynergyScore(w, card1, card2, interaction_tags) ==
    /\ result = NoResult
    /\ result' = [op |-> "calculate_synergy_score", weighter |-> w,
                  card1 |-> card1, card2 |-> card2,
                  interaction_tags |-> interaction_tags,
                  value |-> calculate_synergy_score(weighters[w].category_weights,
                                                    card1, card2, interaction_tags)]
    /\ UNCHANGED <<weighterVars, raceVars, hashSeed, cards, built, graph, interactions, fed, hist>>

NextWeighter ==
    \/ \E category_weights \in OverrideTables : NewWeighter(category_weights)
    \/ \E w \in DOMAIN weighters, card1 \in WeighterPool, card2 \in WeighterPool,
          interaction_tags \in TagLists :
            CalculateSynergyScore(w, card1, card2, interaction_tags)

SpecWeighter == Init /\ [][NextWeighter]_vars

(***************************************************************************)
(* The graph's operations followed by one read of the distribution or of   *)
(* the export structure                                                    *)
(***************************************************************************)

\* GraphAnalyzer(graph).interaction_type_distribution()
InteractionTypeDistribution ==
    /\ built
    /\ result = NoResult
    /\ result' = [op |-> "interaction_type_distribution",
                  value |-> interaction_type_distribution(graph)]
    /\ UNCHANGED <<weighterVars, raceVars, hashSeed, cards, built, graph, interactions, fed, hist>>

\* graph.to_cytoscape_format()
ToCytoscapeFormat ==
    /\ built
    /\ result = NoResult
    /\ result' = [op |-> "to_cytoscape_format", value |-> to_cytoscape_format(graph)]
    /\ UNCHANGED <<weighterVars, raceVars, hashSeed, cards, built, graph, interactions, fed, hist>>

NextExport ==
    \/ result = NoResult /\ Next
    \/ InteractionTypeDistribution
    \/ ToCytoscapeFormat

SpecExport == Init /\ [][NextExport]_vars

(***************************************************************************)
(* add_interaction (deck_graph.py 73-91) called by several threads, one    *)
(* statement at a time.  A list object is an entry of lists; the edge's    *)
(* interaction_types is the attached entry of its pair.                    *)
(***************************************************************************)

\* threads, each calling add_interaction once
MaxWorkers == 2

\* the interactions the threads add
RaceInteractions ==
    {Interaction("c1", "c2", "death_chain", 80, <<"a">>, FALSE),
     Interaction("c2", "c1", "sacrifice_outlet", 70, <<"b">>, FALSE),
     Interaction("c2", "c3", "synergy", 60, None, FALSE)}

\* a DeckGraph of the smoke test's cards built without detection, with or
\* without an edge c1 - c2 added before the threads start
InitConcurrent ==
    /\ hashSeed \in HashSeeds
    /\ cards = <<DeckEntry("c1", 1), DeckEntry("c2", 1), DeckEntry("c3", 1)>>
    /\ built = TRUE
    /\ interactions = <<>>
    /\ fed \in {<<>>, <<Interaction("c1", "c2", "synergy", 50, None, FALSE)>>}
    /\ graph = Ingest(_build_nodes(cards), fed)
    /\ hist = [k \in DOMAIN fed |-> "add"]
    /\ result = NoResult
    /\ DEFAULT_CATEGORY_WEIGHTS = DefaultCategoryWeights
    /\ weighters = <<>>
    /\ serialized \in BOOLEAN
    /\ workers \in [1..MaxWorkers ->
                        [pc : {"idle"}, interaction : RaceInteractions,
                         types : {0}, weight : {0}]]
    /\ lists = [k \in DOMAIN graph.edges |->
                    [pair |-> {graph.edges[k].u, graph.edges[k].v},
                     items |-> graph.edges[k].interaction_types,
                     attached |-> TRUE]]

\* a thread calling add_interaction while another call is running, whatever
\* the discipline
BeginUnserialized(w) ==
    /\ workers[w].pc = "idle"
    /\ workers' = [workers EXCEPT ![w].pc = "has_edge"]
    /\ fed' = Append(fed, workers[w].interaction)
    /\ UNCHANGED <<weighterVars, serialized, lists, hashSeed, cards, built, graph,
                   interactions, hist, result>>

\* a thread calls add_interaction(interaction); when calls are serialized, only
\* while no other call is running
Begin(w) ==
    /\ workers[w].pc = "idle"
    /\ serialized => \A v \in DOMAIN workers : workers[v].pc \in {"idle", "done"}
    /\ workers' = [workers EXCEPT ![w].pc = "has_edge"]
    /\ fed' = Append(fed, workers[w].interaction)
    /\ UNCHANGED <<weighterVars, serialized, lists, hashSeed, cards, built, graph,
                   interactions, hist, result>>

\* line 76: if self.graph.has_edge(source_id, target_id)
HasEdge(w) ==
    /\ workers[w].pc = "has_edge"
    /\ workers' = [workers EXCEPT ![w].pc =
                        IF has_edge(graph, workers[w].interaction.source_id,
                                    workers[w].interaction.target_id)
                        THEN "get_types" ELSE "add_edge"]
    /\ UNCHANGED <<weighterVars, serialized, lists, hashSeed, cards, built, graph,
                   interactions, fed, hist, result>>

\* lines 85-91: self.graph.add_edge(...) with a new one-element list
AddEdge(w) ==
    /\ workers[w].pc = "add_edge"
    /\ LET x == workers[w].interaction
       IN  /\ graph' = add_edge(graph, x.source_id, x.target_id,
                                <<x.interaction_type>>, x.weight, x.description)
           /\ lists' = Append(
                    [k \in DOMAIN lists |->
                        IF lists[k].pair = {x.source_id, x.target_id}
                        THEN [lists[k] EXCEPT !.attached = FALSE] ELSE lists[k]],
                    [pair |-> {x.source_id, x.target_id},
                     items |-> <<x.interaction_type>>, attached |-> TRUE])
    /\ workers' = [workers EXCEPT ![w].pc = "done"]
    /\ UNCHANGED <<weighterVars, serialized, hashSeed, cards, built, interactions,
                   fed, hist, result>>

\* lines 78-79: types = edge_data.get("interaction_types", []), the list object
\* of the edge at that moment
GetTypes(w) ==
    /\ workers[w].pc = "get_types"
    /\ LET x == workers[w].interaction
       IN  workers' = [workers EXCEPT
                ![w].types = CHOOSE k \in DOMAIN lists :
                                /\ lists[k].pair = {x.source_id, x.target_id}
                                /\ lists[k].attached,
                ![w].pc = "append"]
    /\ UNCHANGED <<weighterVars, serialized, lists, hashSeed, cards, built, graph,
                   interactions, fed, hist, result>>

\* line 80: types.append(interaction.interaction_type.value), in place
AppendType(w) ==
    /\ workers[w].pc = "append"
    /\ LET x == workers[w].interaction
           k == workers[w].types
       IN  /\ lists' = [lists EXCEPT ![k].items = Append(@, x.interaction_type)]
           /\ graph' = IF lists[k].attached
                       THEN [graph EXCEPT
                                !.edges[EdgeIndex(graph, x.source_id, x.target_id)]
                                    .interaction_types = Append(@, x.interaction_type)]
                       ELSE graph
    /\ workers' = [workers EXCEPT ![w].pc = "set_types"]
    /\ UNCHANGED <<weighterVars, serialized, hashSeed, cards, built, interactions,
                   fed, hist, result>>

\* line 81: edge_data["interaction_types"] = types
SetTypes(w) ==
    /\ workers[w].pc = "set_types"
    /\ LET x == workers[w].interaction
           k == workers[w].types
       IN  /\ lists' = [j \in DOMAIN lists |->
                            IF lists[j].pair = {x.source_id, x.target_id}
                            THEN [lists[j] EXCEPT !.attached = (j = k)]
                            ELSE lists[j]]
           /\ graph' = [graph EXCEPT
                            !.edges[EdgeIndex(graph, x.source_id, x.target_id)]
                                .interaction_types = lists[k].items]
    /\ workers' = [workers EXCEPT ![w].pc = "max_weight"]
    /\ UNCHANGED <<weighterVars, serialized, hashSeed, cards, built, interactions,
                   fed, hist, result>>

\* line 82, right-hand side: max(edge_data.get("weight", 0), interaction.weight)
MaxWeight(w) ==
    /\ workers[w].pc = "max_weight"
    /\ LET x == workers[w].interaction
       IN  workers' = [workers EXCEPT
                ![w].weight =
                    Max(graph.edges[EdgeIndex(graph, x.source_id, x.target_id)].weight,
                        x.weight),
                ![w].pc = "set_weight"]
    /\ UNCHANGED <<weighterVars, serialized, lists, hashSeed, cards, built, graph,
                   interactions, fed, hist, result>>

\* line 82, the store: edge_data["weight"] = ...
SetWeight(w) ==
    /\ workers[w].pc = "set_weight"
    /\ LET x == workers[w].interaction
       IN  graph' = [graph EXCEPT
                        !.edges[EdgeIndex(graph, x.source_id, x.target_id)].weight =
                            workers[w].weight]
    /\ workers' = [workers EXCEPT ![w].pc = "done"]
    /\ UNCHANGED <<weighterVars, serialized, lists, hashSeed, cards, built,
                   interactions, fed, hist, result>>

NextConcurrent ==
    \/ \E w \in DOMAIN workers : Begin(w)
    \/ \E w \in DOMAIN workers : HasEdge(w)
    \/ \E w \in DOMAIN workers : AddEdge(w)
    \/ \E w \in DOMAIN workers : GetTypes(w)
    \/ \E w \in DOMAIN workers : AppendType(w)
    \/ \E w \in DOMAIN workers : SetTypes(w)
    \/ \E w \in DOMAIN workers : MaxWeight(w)
    \/ \E w \in DOMAIN workers : SetWeight(w)

SpecConcurrent == InitConcurrent /\ [][NextConcurrent]_vars

(***************************************************************************)
(* The ingest loop of detect_interactions (deck_graph.py 70-71) on a list  *)
(* of interactions given as input                                          *)
(***************************************************************************)

\* interactions in the list
MaxList == 3

\* a DeckGraph of the smoke test's cards, with or without an edge c1 - c2, and
\* a list self.interactions that has not been ingested
InitIngest ==
    /\ hashSeed \in HashSeeds
    /\ cards = <<DeckEntry("c1", 1), DeckEntry("c2", 1), DeckEntry("c3", 1)>>
    /\ built = TRUE
    /\ interactions \in UNION {[1..n -> RaceInteractions] : n \in 0..MaxList}
    /\ fed \in {<<>>, <<Interaction("c1", "c2", "synergy", 75, None, FALSE)>>}
    /\ graph = Ingest(_build_nodes(cards), fed)
    /\ hist = [k \in DOMAIN fed |-> "add"]
    /\ result = NoResult
    /\ DEFAULT_CATEGORY_WEIGHTS = DefaultCategoryWeights
    /\ weighters = <<>>
    /\ serialized = TRUE
    /\ workers = <<>>
    /\ lists = <<>>

\* `for interaction in self.interactions: self.add_interaction(interaction)`
IngestInteractions ==
    /\ "ingest" \notin Range(hist)
    /\ graph' = Ingest(graph, interactions)
    /\ fed' = fed \o interactions
    /\ hist' = Append(hist, "ingest")
    /\ UNCHANGED <<weighterVars, raceVars, hashSeed, cards, built, interactions, result>>

SpecIngest == InitIngest /\ [][IngestInteractions]_vars

(***************************************************************************)
(* Claims about the synergy graph                                          *)
(***************************************************************************)

\* only detect_interactions has fed the graph: the constructor's auto-detection
\* and explicit calls
OnlyDetects ==
    /\ built
    /\ hist # <<>>
    /\ \A k \in DOMAIN hist : hist[k] \in {"auto_detect", "detect"}

\* the graph after the deck's interaction list has been ingested once
IngestedOnce ==
    Ingest(_build_nodes(cards), detect_all(get_unique_cards(cards), hashSeed))

EdgePairs(g) == {{g.edges[k].u, g.edges[k].v} : k \in DOMAIN g.edges}

NoDuplicates(s) == \A i, j \in DOMAIN s : i # j => s[i] # s[j]

\* C1: ingest is idempotent: after the deck's interaction list has been fed
\* through add_interaction any number of times (DeckGraph with auto_detect, then
\* detect_interactions() again), the graph has the edge set it has after one
\* ingest, every edge has the weight it has after one ingest, and no edge's
\* interaction-type list holds a type twice.
C1_IngestIdempotent ==
    OnlyDetects =>
        /\ EdgePairs(graph) = EdgePairs(IngestedOnce)
        /\ \A k \in DOMAIN graph.edges :
                /\ \E m \in DOMAIN IngestedOnce.edges :
                        /\ {IngestedOnce.edges[m].u, IngestedOnce.edges[m].v}
                                = {graph.edges[k].u, graph.edges[k].v}
                        /\ IngestedOnce.edges[m].weight = graph.edges[k].weight
                /\ NoDuplicates(graph.edges[k].interaction_types)

\* no remove_interaction has been called
NoRemoval == \A k \in DOMAIN hist : hist[k] # "remove"

\* the interactions added for the unordered pair p
FedFor(p) == {k \in DOMAIN fed : {fed[k].source_id, fed[k].target_id} = p}

FedPairs == {{fed[k].source_id, fed[k].target_id} : k \in DOMAIN fed}

\* C2: edge merge: after any sequence of add_interaction calls with no removal,
\* every unordered pair that received an interaction has exactly one edge
\* (A->B and B->A share it), whose weight is the maximum weight added for the
\* pair and whose type list holds every type added for the pair.
C2_EdgeMerge ==
    (built /\ NoRemoval) =>
        \A p \in FedPairs :
            /\ Cardinality({k \in DOMAIN graph.edges :
                                {graph.edges[k].u, graph.edges[k].v} = p}) = 1
            /\ \A k \in DOMAIN graph.edges :
                    {graph.edges[k].u, graph.edges[k].v} = p =>
                        /\ \A i \in FedFor(p) : fed[i].weight <= graph.edges[k].weight
                        /\ \E i \in FedFor(p) : fed[i].weight = graph.edges[k].weight
                        /\ \A i \in FedFor(p) :
                                fed[i].interaction_type
                                    \in Range(graph.edges[k].interaction_types)
                        /\ graph.edges[k].interaction_types # <<>>

\* C2 witness: with no removal, two interactions of different types and weights
\* were added for one pair in opposite directions, the lighter one last
C2_Witness ==
    /\ built /\ NoRemoval
    /\ \E i, j \in DOMAIN fed :
            /\ i < j
            /\ fed[i].source_id = fed[j].target_id
            /\ fed[i].target_id = fed[j].source_id
            /\ fed[i].source_id # fed[i].target_id
            /\ fed[i].weight > fed[j].weight
            /\ fed[i].interaction_type # fed[j].interaction_type
            /\ \E k \in DOMAIN graph.edges :
                    /\ {graph.edges[k].u, graph.edges[k].v}
                            = {fed[i].source_id, fed[i].target_id}
                    /\ graph.edges[k].weight = 90

\* no add_interaction call from outside the class
NoDirectAdd == \A k \in DOMAIN hist : hist[k] # "add"

\* C3: in every state reachable by detect_interactions, add_interaction,
\* add_custom_interaction (any caller-supplied weight) and remove_interaction,
\* every edge has a weight in [0, 1].
C3_WeightInUnitInterval ==
    \A k \in DOMAIN graph.edges :
        graph.edges[k].weight >= 0 /\ graph.edges[k].weight <= 100

(***************************************************************************)
(* Claims about detection                                                  *)
(***************************************************************************)

\* the card's text matches one of the detector's sacrifice-outlet patterns
MatchesOutlet ==
    [id \in CardIds |-> AnySearch(sacrifice_outlet_patterns, CardById(id).oracle_text)]

\* the card's text matches one of the detector's death-trigger patterns
MatchesDeath ==
    [id \in CardIds |-> AnySearch(death_trigger_patterns, CardById(id).oracle_text)]

IsCreature == [id \in CardIds |-> is_creature(CardById(id))]

\* detection has run and self.interactions holds what detect_all returned
Detected == built /\ hist # <<>> /\ hist[Len(hist)] \in {"auto_detect", "detect"}

Emitted(source_id, target_id, interaction_type, weight) ==
    \E k \in DOMAIN interactions :
        /\ interactions[k].source_id = source_id
        /\ interactions[k].target_id = target_id
        /\ interactions[k].interaction_type = interaction_type
        /\ interactions[k].weight = weight

\* C4: for every two distinct cards A and B of the input, whichever comes
\* first: if A's text matches a sacrifice-outlet pattern and B's text matches a
\* death-trigger pattern, detect_all emits DEATH_CHAIN A->B with weight 0.8,
\* and when B is a creature also SACRIFICE_OUTLET A->B with weight 0.7.
C4_SacrificeRule ==
    Detected =>
        \A i, j \in DOMAIN cards :
            LET a == cards[i].card
                b == cards[j].card
            IN  (i # j /\ MatchesOutlet[a] /\ MatchesDeath[b]) =>
                    /\ Emitted(a, b, "death_chain", 80)
                    /\ IsCreature[b] => Emitted(a, b, "sacrifice_outlet", 70)

\* C4 witness: the death-trigger creature comes before the outlet in the input
\* and both interactions, outlet -> creature, were emitted
C4_Witness ==
    /\ Detected
    /\ \E i, j \in DOMAIN cards :
            /\ j < i
            /\ MatchesOutlet[cards[i].card]
            /\ MatchesDeath[cards[j].card]
            /\ IsCreature[cards[j].card]
            /\ Emitted(cards[i].card, cards[j].card, "death_chain", 80)
            /\ Emitted(cards[i].card, cards[j].card, "sacrifice_outlet", 70)

\* the deck of tests/smoke_test.py: c1, c2, c3 added in that order, one of each
SmokeDeck == cards = <<DeckEntry("c1", 1), DeckEntry("c2", 1), DeckEntry("c3", 1)>>

\* the smoke test: DeckGraph(deck), possibly followed by detect_interactions()
SmokeRun == SmokeDeck /\ hist \in {<<"auto_detect">>, <<"auto_detect", "detect">>}

HasEdgeAt(g, n) == \E k \in DOMAIN g.edges : g.edges[k].u = n \/ g.edges[k].v = n

\* a type-matters or keyword rule fired for the card
TypeOrKeywordFired(id) ==
    \E k \in DOMAIN interactions :
        /\ id \in {interactions[k].source_id, interactions[k].target_id}
        /\ interactions[k].interaction_type \in {"type_matters", "keyword_synergy"}

\* C5: for the 3-card deck of the smoke test, detection emits
\* DEATH_CHAIN(c1->c2, 0.8) and SACRIFICE_OUTLET(c1->c2, 0.7), the graph has
\* exactly 3 nodes, the edge c1-c2 has weight 0.8, and c3 has no edge unless a
\* type-matters or keyword rule fires for it.
C5_SmokeScenario ==
    SmokeRun =>
        /\ Emitted("c1", "c2", "death_chain", 80)
        /\ Emitted("c1", "c2", "sacrifice_outlet", 70)
        /\ Len(graph.nodes) = 3
        /\ Range(graph.nodes) = {"c1", "c2", "c3"}
        /\ has_edge(graph, "c1", "c2")
        /\ graph.edges[EdgeIndex(graph, "c1", "c2")].weight = 80
        /\ HasEdgeAt(graph, "c3") => TypeOrKeywordFired("c3")

\* C5 witness: the smoke test has run, detect_interactions() included, and the
\* c1-c2 edge has merged the three interactions detected for the pair
C5_Witness ==
    /\ SmokeDeck
    /\ hist = <<"auto_detect", "detect">>
    /\ has_edge(graph, "c1", "c2")
    /\ {"death_chain", "sacrifice_outlet", "type_matters"}
            \subseteq Range(graph.edges[EdgeIndex(graph, "c1", "c2")].interaction_types)
    /\ HasEdgeAt(graph, "c3")

(***************************************************************************)
(* Claims about the analyzer                                               *)
(***************************************************************************)

\* C6: in every graph, a single-node graph included, every node with no edge
\* has degree centrality 0 and is returned by weak_links() under the default
\* threshold 0.3.
C6_IsolatedNodeIsWeak ==
    built =>
        \A k \in DOMAIN graph.nodes :
            degree(graph, graph.nodes[k]) = 0 =>
                /\ RatEq(degree_centrality(graph)[k], Zero)
                /\ k \in Range(weak_links(graph, DefaultThreshold))

\* C7: in every graph reachable through detect_interactions,
\* add_custom_interaction (any ids, source = target included) and
\* remove_interaction, degree_centrality() gives every node a value in [0, 1].
C7_DegreeCentralityInUnitInterval ==
    (built /\ NoDirectAdd) =>
        \A k \in DOMAIN graph.nodes :
            /\ RatLeq(Zero, degree_centrality(graph)[k])
            /\ RatLeq(degree_centrality(graph)[k], <<1, 1>>)

\* 0.5 x density + 0.5 x mean edge weight, from the node and edge counts
HalfDensityPlusHalfMean(g) ==
    LET n == Len(g.nodes)
        m == Len(g.edges)
    IN  IF m = 0 THEN Zero
        ELSE <<2 * m * 100 * m + SumWeights(g.edges) * n * (n - 1),
               2 * n * (n - 1) * 100 * m>>

\* C8: synergy_score() is 0.5 x density + 0.5 x mean edge weight (0 with no
\* edge) and lies in [0, 1] for every graph of at least 2 nodes reachable
\* through detect_interactions, add_custom_interaction and remove_interaction;
\* with fewer than 2 nodes it is 0.
C8_SynergyScore ==
    (built /\ NoDirectAdd) =>
        IF Len(graph.nodes) >= 2
        THEN /\ RatEq(synergy_score(graph), HalfDensityPlusHalfMean(graph))
             /\ RatLeq(Zero, synergy_score(graph))
             /\ RatLeq(synergy_score(graph), <<1, 1>>)
        ELSE RatEq(synergy_score(graph), Zero)

\* position of a card id in the graph's node iteration order
NodePos(g, card_id) == CHOOSE k \in DOMAIN g.nodes : g.nodes[k] = card_id

\* a metric of node k as key_cards reads it: the library's value, or 0 when the
\* guarded method returned the empty map
MetricAt(g, lib, k) == IF Len(g.nodes) < 2 THEN Zero ELSE lib[k]

\* normalized degree of node k
NormalizedDegree(g, k) ==
    IF Len(g.nodes) <= 1 THEN <<1, 1>>
    ELSE <<degree(g, g.nodes[k]), Len(g.nodes) - 1>>

\* (3 a + 3 b + 3 c + d) / 10 for rationals a, b, c, d
Weighted(a, b, c, d) ==
    <<3 * a[1] * b[2] * c[2] * d[2] + 3 * b[1] * a[2] * c[2] * d[2]
        + 3 * c[1] * a[2] * b[2] * d[2] + d[1] * a[2] * b[2] * c[2],
      10 * a[2] * b[2] * c[2] * d[2]>>

\* every entry's composite is the linear combination of its node's metrics, the
\* entries are in non-increasing composite order, ties in node iteration order
KeyCardsScoredAndOrdered ==
    LET v == result.value
    IN  /\ \A i \in DOMAIN v :
                LET k == NodePos(graph, v[i].card_id)
                IN  /\ v[i].card_id \in Range(graph.nodes)
                    /\ RatEq(v[i].composite,
                             Weighted(NormalizedDegree(graph, k),
                                      MetricAt(graph, result.btw_lib, k),
                                      MetricAt(graph, result.pr_lib, k),
                                      result.cl_lib[k]))
        /\ \A i, j \in DOMAIN v :
                i < j =>
                    /\ RatLeq(v[j].composite, v[i].composite)
                    /\ RatEq(v[i].composite, v[j].composite) =>
                            NodePos(graph, v[i].card_id) < NodePos(graph, v[j].card_id)

\* C9 as stated: key_cards(top_n=N) returns at most N entries for every integer
\* N, each entry's composite is 0.3 degree + 0.3 betweenness + 0.3 pagerank
\* + 0.1 clustering of its node, entries are in non-increasing composite order,
\* and nodes of equal composite appear in the graph's node iteration order.
C9_KeyCardsAnyN ==
    result.op = "key_cards" =>
        /\ Len(result.value) <= result.top_n
        /\ KeyCardsScoredAndOrdered

\* C9 amended: the same for every N >= 0; for N < 0 key_cards returns all but
\* the last -N entries of the sorted list.
C9_KeyCards ==
    result.op = "key_cards" =>
        /\ result.top_n >= 0 => Len(result.value) <= result.top_n
        /\ result.top_n < 0 =>
                Len(result.value) = Max(Len(graph.nodes) + result.top_n, 0)
        /\ KeyCardsScoredAndOrdered

\* C9 witness: key_cards cut the list short, and two of the returned entries
\* have the same composite
C9_Witness ==
    /\ result.op = "key_cards"
    /\ result.top_n >= 0
    /\ Len(result.value) = result.top_n
    /\ result.top_n < Len(graph.nodes)
    /\ \E i, j \in DOMAIN result.value :
            i < j /\ RatEq(result.value[i].composite, result.value[j].composite)

\* C10: on a graph of 0 or 1 nodes, betweenness_centrality,
\* closeness_centrality, eigenvector_centrality and pagerank return an empty map
\* without calling networkx, average_clustering returns 0.0, and none raises.
C10_DegenerateGraph ==
    (built /\ Len(graph.nodes) < 2) =>
        /\ result.op \in {"betweenness_centrality", "closeness_centrality",
                           "eigenvector_centrality", "pagerank"} =>
                /\ result.value = EmptyMap
                /\ result.called = {}
                /\ ~result.raised
        /\ result.op = "average_clustering" =>
                /\ result.value = Zero
                /\ result.called = {}
                /\ ~result.raised

\* C10 witness: pagerank was called on the graph of a one-card deck
C10_Witness ==
    /\ built
    /\ Len(graph.nodes) = 1
    /\ result.op = "pagerank"
    /\ result.value = EmptyMap

(***************************************************************************)
(* Claims about the weighter                                               *)
(***************************************************************************)

\* a score has been computed
Scored == result.op = "calculate_synergy_score"

\* one of the two cards' names occurs in the other's rules text
NamesTheOther ==
    \/ Contains(result.card1.name, result.card2.oracle_text)
    \/ Contains(result.card2.name, result.card1.oracle_text)

\* C11: with the default weight table, calculate_synergy_score for the tags
\* ["recursion", "graveyard"] returns 2.9 when neither card's name occurs in
\* the other's rules text and 7.9 when one does (the bonus 5.0 added once,
\* also when both cards name each other).
C11_WeighterExample ==
    (/\ Scored
     /\ weighters[result.weighter].overrides = EmptyMap
     /\ result.interaction_tags = <<<<"r","e","c","u","r","s","i","o","n">>,
                                    <<"g","r","a","v","e","y","a","r","d">>>>)
        => result.value = IF NamesTheOther THEN 79 ELSE 29

\* the tag's lowercase form is a keyword of no category
InNoCategory(tag) ==
    \A k \in DOMAIN KEYWORD_CATEGORIES : Lower(tag) \notin KEYWORD_CATEGORIES[k].keywords

\* C12: a SynergyWeighter constructed with an override table has exactly the
\* overridden categories changed: the others keep their default weight, a tag
\* of no category is weighted with the instance's "other" weight, and the
\* class table DEFAULT_CATEGORY_WEIGHTS is never modified, so a weighter
\* constructed later without overrides has all the default weights.
C12_OverridesAreLocal ==
    /\ DEFAULT_CATEGORY_WEIGHTS = DefaultCategoryWeights
    /\ \A w \in DOMAIN weighters :
            LET table == weighters[w].category_weights
                overrides == weighters[w].overrides
            IN  /\ DOMAIN table = DOMAIN DefaultCategoryWeights \cup DOMAIN overrides
                /\ \A c \in DOMAIN table :
                        table[c] = IF c \in DOMAIN overrides THEN overrides[c]
                                   ELSE DefaultCategoryWeights[c]
    /\ (/\ Scored
        /\ Len(result.interaction_tags) = 1
        /\ InNoCategory(result.interaction_tags[1]))
            => result.value = weighters[result.weighter].category_weights["other"]
                                + (IF NamesTheOther THEN 50 ELSE 0)

\* C12 witness: a weighter overriding "other" was constructed, then one without
\* overrides, and the first one scored a tag of no category with its own
\* "other" weight
C12_Witness ==
    /\ Len(weighters) = 2
    /\ "other" \in DOMAIN weighters[1].overrides
    /\ weighters[2].overrides = EmptyMap
    /\ Scored
    /\ result.weighter = 1
    /\ result.interaction_tags = <<<<"z","z","z">>>>
    /\ ~NamesTheOther
    /\ result.value = 20

(***************************************************************************)
(* Claims about detection and the deck                                     *)
(***************************************************************************)

\* C13: detection is deterministic: two runs of detect_all on the same card
\* sequence yield the same interaction list, the same elements (descriptions
\* included) in the same order, also for cards with several creature subtypes,
\* whose TRIBAL interactions come from iterating over a set of subtypes.
C13_DetectionDeterministic ==
    Detected =>
        \A h \in HashSeeds : detect_all(get_unique_cards(cards), h) = interactions

\* the same deck with every quantity 1
UnitDeck == [k \in DOMAIN cards |-> DeckEntry(cards[k].card, 1)]

\* C14: for any sequence of Deck.add_card calls (an id added several times or
\* with quantity > 1), the graph built from the deck has exactly one node per
\* distinct card id, and its edges, edge weights and edge type lists are those
\* of the deck in which every card has quantity 1.
C14_QuantityIgnored ==
    (built /\ hist = <<"auto_detect">>) =>
        /\ NoDuplicates(graph.nodes)
        /\ Range(graph.nodes) = {cards[k].card : k \in DOMAIN cards}
        /\ NoDuplicates(get_unique_cards(cards))
        /\ graph.edges
            = Ingest(_build_nodes(UnitDeck),
                     detect_all(get_unique_cards(UnitDeck), hashSeed)).edges

\* C14 witness: a graph with an edge built from a deck holding two copies of
\* a card and one of another
C14_Witness ==
    /\ built
    /\ hist = <<"auto_detect">>
    /\ Len(cards) = 2
    /\ \E k \in DOMAIN cards : cards[k].quantity = 2
    /\ graph.edges # <<>>

(***************************************************************************)
(* Claims about removal, components and communities                        *)
(***************************************************************************)

\* the edges of g that do not join a and b
EdgesNotJoining(g, a, b) ==
    {g.edges[k] : k \in {i \in DOMAIN g.edges : {g.edges[i].u, g.edges[i].v} # {a, b}}}

\* C15: remove_interaction(a, b), in either argument order, leaves no edge
\* between a and b and leaves every other edge (endpoints, weight, type list,
\* description) and every node unchanged; when there is no such edge, also
\* when a or b is not a node, the graph is unchanged.
C15_RemoveFrame ==
    [][\A a \in CallerIds, b \in CallerIds :
            RemoveInteraction(a, b) =>
                /\ {a, b} \notin EdgePairs(graph')
                /\ Range(graph'.edges) = EdgesNotJoining(graph, a, b)
                /\ Len(graph'.edges) = Cardinality(EdgesNotJoining(graph, a, b))
                /\ graph'.nodes = graph.nodes
                /\ graph'.data = graph.data
                /\ {a, b} \notin EdgePairs(graph) => graph' = graph]_vars

\* C15 witness: the last call was a removal, an interaction once added has no
\* edge any more, and the edges of other pairs are still there
C15_Witness ==
    /\ hist # <<>>
    /\ hist[Len(hist)] = "remove"
    /\ \E i \in DOMAIN fed : {fed[i].source_id, fed[i].target_id} \notin EdgePairs(graph)
    /\ graph.edges # <<>>

\* some edge joins a node of S and a node of T
Linked(g, S, T) ==
    \E k \in DOMAIN g.edges :
        \/ g.edges[k].u \in S /\ g.edges[k].v \in T
        \/ g.edges[k].u \in T /\ g.edges[k].v \in S

\* parts is a list of node lists that partitions the nodes of g
IsPartition(g, parts) ==
    /\ \A i \in DOMAIN parts : parts[i] # <<>> /\ NoDuplicates(parts[i])
    /\ \A n \in Range(g.nodes) :
            Cardinality({i \in DOMAIN parts : n \in Range(parts[i])}) = 1
    /\ \A i \in DOMAIN parts : Range(parts[i]) \subseteq Range(g.nodes)

\* C16: connected_components() returns a partition of the node set: every node
\* is in exactly one component, no component is empty, and two nodes are in
\* the same component exactly when a path of edges joins them (no edge leaves a
\* component, and no component splits into two parts with no edge between
\* them); this holds after any sequence of add_interaction and
\* remove_interaction.
C16_ComponentsPartition ==
    built =>
        LET parts == connected_components(graph, hashSeed)
        IN  /\ IsPartition(graph, parts)
            /\ \A i, j \in DOMAIN parts :
                    i # j => ~Linked(graph, Range(parts[i]), Range(parts[j]))
            /\ \A i \in DOMAIN parts :
                    \A S \in SUBSET Range(parts[i]) :
                        (S # {} /\ S # Range(parts[i]))
                            => Linked(graph, S, Range(parts[i]) \ S)

\* C16 witness: after a removal the graph has a component of three nodes
\* joined only through a middle node, and a second component
C16_Witness ==
    /\ built
    /\ \E k \in DOMAIN hist : hist[k] = "remove"
    /\ LET parts == connected_components(graph, hashSeed)
       IN  /\ Len(parts) = 2
           /\ \E i \in DOMAIN parts :
                    /\ Len(parts[i]) = 3
                    /\ \E a, b \in Range(parts[i]) :
                            a # b /\ {a, b} \notin EdgePairs(graph)

\* C17: detect_communities never raises: with fewer than 2 nodes it returns a
\* single community holding the whole node set; otherwise, when the community
\* optimizer raises or cannot be imported, the result is exactly the
\* connected-components partition; in every case the returned communities
\* cover every node exactly once.
C17_CommunitiesFallback ==
    result.op = "detect_communities" =>
        /\ ~result.raised
        /\ Len(graph.nodes) < 2 => result.value = <<graph.nodes>>
        /\ (Len(graph.nodes) >= 2 /\ result.outcome # "ok")
                => result.value = connected_components(graph, hashSeed)
        /\ \A n \in Range(graph.nodes) :
                Cardinality({i \in DOMAIN result.value : n \in Range(result.value[i])}) = 1
        /\ \A i \in DOMAIN result.value :
                /\ NoDuplicates(result.value[i])
                /\ Range(result.value[i]) \subseteq Range(graph.nodes)

\* C17 witness: the optimizer raised on a graph of several nodes and the
\* components came back, more than one of them
C17_Witness ==
    /\ result.op = "detect_communities"
    /\ result.outcome = "raises"
    /\ Len(graph.nodes) >= 2
    /\ Len(result.value) >= 2
    /\ result.value = connected_components(graph, hashSeed)

\* C18: eigenvector_centrality runs the power iteration with a budget of 500
\* iterations and, when the iteration does not converge within it, returns an
\* empty map instead of raising; the graph is left unchanged.
C18_EigenvectorNonConvergence ==
    [][(result.op = "none" /\ result'.op = "eigenvector_centrality") =>
            /\ graph' = graph
            /\ result'.called # {} =>
                    /\ result'.max_iter = 500
                    /\ ~result'.converged =>
                            result'.value = EmptyMap /\ ~result'.raised]_vars

\* C18 witness: the power iteration was run on a graph with an edge and did
\* not converge
C18_Witness ==
    /\ result.op = "eigenvector_centrality"
    /\ result.called = {"nx.eigenvector_centrality"}
    /\ ~result.converged
    /\ graph.edges # <<>>
    /\ result.value = EmptyMap

(***************************************************************************)
(* Claims about the distribution and the export                            *)
(***************************************************************************)

\* edges of g that carry the type t
EdgesCarrying(g, t) ==
    {k \in DOMAIN g.edges : t \in Range(g.edges[k].interaction_types)}

\* C19: interaction_type_distribution() maps every interaction type to the
\* number of edges to which it contributed, an edge counting once for each
\* distinct type it carries, and types carried by no edge are absent.
C19_TypeDistribution ==
    result.op = "interaction_type_distribution" =>
        /\ DOMAIN result.value =
                {t \in InteractionTypes : EdgesCarrying(graph, t) # {}}
        /\ \A t \in DOMAIN result.value :
                result.value[t] = Cardinality(EdgesCarrying(graph, t))

\* the connected components of g, as a set of sets of nodes
ComponentSets(g) == {Closure(g, {n}) : n \in Range(g.nodes)}

\* C20: the export structure's stats agree with the graph: node and edge counts
\* are the numbers of nodes and edges, density is the edge count divided by
\* n(n-1)/2 (0 with fewer than 2 nodes) and is never above 1, the component
\* count is the number of connected components, and every exported node's
\* size is 30 + 5 x its degree.
C20_ExportStats ==
    result.op = "to_cytoscape_format" =>
        LET stats == result.value.stats
            n == Len(graph.nodes)
        IN  /\ stats.total_nodes = n
            /\ stats.total_edges = Len(graph.edges)
            /\ IF n < 2
               THEN RatEq(stats.density, <<0, 1>>)
               ELSE RatEq(stats.density, <<2 * Len(graph.edges), n * (n - 1)>>)
            /\ RatLeq(stats.density, <<1, 1>>)
            /\ stats.connected_components = Cardinality(ComponentSets(graph))
            /\ \A k \in DOMAIN result.value.nodes :
                    /\ result.value.nodes[k].id = graph.nodes[k]
                    /\ result.value.nodes[k].size = 30 + 5 * degree(graph, graph.nodes[k])

(***************************************************************************)
(* Claims about merging, nodes and the interactions list                   *)
(***************************************************************************)

\* the edge of g between the two ids of p
EdgeOf(g, p) ==
    g.edges[CHOOSE k \in DOMAIN g.edges : {g.edges[k].u, g.edges[k].v} = p]

\* the first interaction of list for the unordered pair p
FirstFor(list, p) ==
    list[CHOOSE i \in DOMAIN list :
            /\ {list[i].source_id, list[i].target_id} = p
            /\ \A j \in 1..(i - 1) : {list[j].source_id, list[j].target_id} # p]

\* the interactions a step feeds to add_interaction
FedByStep == SubSeq(fed', Len(fed) + 1, Len(fed'))

\* C21: first wins: an edge that exists keeps its description and the first
\* element of its type list through every later add_interaction for its pair,
\* whatever the weights; an edge that a step creates has those of the first
\* interaction the step feeds for the pair; the exported primary type is that
\* first element.
C21_FirstWins ==
    [][\A p \in EdgePairs(graph') :
            /\ IF p \in EdgePairs(graph)
               THEN /\ EdgeOf(graph', p).description = EdgeOf(graph, p).description
                    /\ EdgeOf(graph', p).interaction_types[1]
                            = EdgeOf(graph, p).interaction_types[1]
               ELSE /\ EdgeOf(graph', p).description
                            = FirstFor(FedByStep, p).description
                    /\ EdgeOf(graph', p).interaction_types[1]
                            = FirstFor(FedByStep, p).interaction_type
            /\ LET exported == ExportedEdges(graph')
               IN  \E k \in DOMAIN exported :
                        /\ {exported[k].source, exported[k].target} = p
                        /\ exported[k].primary_type
                                = EdgeOf(graph', p).interaction_types[1]]_vars

\* C21 witness: with no removal, an edge holds two types, has the description
\* and first type of the first interaction added for its pair, and a weight
\* above that interaction's
C21_Witness ==
    /\ built /\ NoRemoval
    /\ \E p \in EdgePairs(graph) :
            /\ Len(EdgeOf(graph, p).interaction_types) >= 2
            /\ EdgeOf(graph, p).description = FirstFor(fed, p).description
            /\ EdgeOf(graph, p).interaction_types[1] = FirstFor(fed, p).interaction_type
            /\ EdgeOf(graph, p).interaction_types[2] # FirstFor(fed, p).interaction_type
            /\ EdgeOf(graph, p).weight > FirstFor(fed, p).weight
            /\ \E i \in FedFor(p) : fed[i].description # FirstFor(fed, p).description

\* every add_interaction call of the threads has returned
AllDone == workers # <<>> /\ \A w \in DOMAIN workers : workers[w].pc = "done"

\* the edge of the interaction x lacks x's type
LacksType(x) ==
    x.interaction_type
        \notin Range(EdgeOf(graph, {x.source_id, x.target_id}).interaction_types)

\* C22: the merge step is not safe under concurrent writers: when calls for the
\* same pair interleave between the has_edge check and the edge write, the edge
\* can end without one of the types or with a weight below the maximum (the
\* witness); when the calls are serialized, every edge ends with the type of
\* every interaction added for its pair and the maximum of their weights.
C22_SerializedMerge ==
    (serialized /\ AllDone) =>
        \A p \in FedPairs :
            /\ p \in EdgePairs(graph)
            /\ \A i \in FedFor(p) :
                    /\ ~LacksType(fed[i])
                    /\ fed[i].weight <= EdgeOf(graph, p).weight
            /\ \E i \in FedFor(p) : fed[i].weight = EdgeOf(graph, p).weight
            /\ Len(EdgeOf(graph, p).interaction_types) = Cardinality(FedFor(p))

\* C22 witness: two calls that were not serialized have returned, and the edge
\* lacks the type of one and is lighter than one
C22_Witness ==
    /\ ~serialized
    /\ AllDone
    /\ \E w \in DOMAIN workers : LacksType(workers[w].interaction)
    /\ \E w \in DOMAIN workers :
            LET x == workers[w].interaction
            IN  EdgeOf(graph, {x.source_id, x.target_id}).weight < x.weight

\* C22 witness: both calls found the edge there, both types were appended, and
\* the edge is lighter than one of the two interactions
C22_WitnessWeight ==
    /\ ~serialized
    /\ AllDone
    /\ \A w \in DOMAIN workers : ~LacksType(workers[w].interaction)
    /\ \E w \in DOMAIN workers :
            LET x == workers[w].interaction
            IN  EdgeOf(graph, {x.source_id, x.target_id}).weight < x.weight

(***************************************************************************)
(* Claims about the detection rules                                        *)
(***************************************************************************)

\* the card is a land or its text adds a mana symbol
ProducesMana ==
    [id \in CardIds |->
        \/ Contains(Str.Land, CardById(id).type_line)
        \/ SearchAddMana(CardById(id).oracle_text)]

\* the interactions of the given type emitted from source_id to target_id
EmittedOf(source_id, target_id, interaction_type) ==
    {k \in DOMAIN interactions :
        /\ interactions[k].source_id = source_id
        /\ interactions[k].target_id = target_id
        /\ interactions[k].interaction_type = interaction_type}

\* C23: MANA_ENABLES S->T is emitted exactly when S produces mana (a land, or a
\* text that adds a mana symbol), T is not a land and T's cost is at least 4;
\* its weight is min(0.4 + 0.05 x cost(T), 0.8), within [0.6, 0.8], and 0.8 for
\* every cost of 8 or more.
C23_ManaEnables ==
    Detected =>
        \A i, j \in DOMAIN cards :
            LET S == cards[i].card
                T == cards[j].card
                cost == CardById(T).cmc
            IN  i # j =>
                    /\ EmittedOf(S, T, "mana_enables") # {}
                            <=> /\ ProducesMana[S]
                                /\ ~Contains(Str.Land, CardById(T).type_line)
                                /\ cost >= 4
                    /\ \A k \in EmittedOf(S, T, "mana_enables") :
                            /\ \/ interactions[k].weight = 40 + 5 * cost
                                        /\ 40 + 5 * cost <= 80
                               \/ interactions[k].weight = 80
                                        /\ 40 + 5 * cost >= 80
                            /\ interactions[k].weight >= 60
                            /\ interactions[k].weight <= 80
                            /\ cost >= 8 => interactions[k].weight = 80

\* C23 witness: a land without rules text enables a card of cost 9 with weight
\* 0.8 and a card of cost 4 with weight 0.6
C23_Witness ==
    /\ Detected
    /\ \E i, j, k \in DOMAIN cards :
            /\ Contains(Str.Land, CardById(cards[i].card).type_line)
            /\ CardById(cards[i].card).oracle_text = <<>>
            /\ CardById(cards[j].card).cmc = 9
            /\ CardById(cards[k].card).cmc = 4
            /\ Emitted(cards[i].card, cards[j].card, "mana_enables", 80)
            /\ Emitted(cards[i].card, cards[k].card, "mana_enables", 60)

\* the directional interactions of a list as (source, target, type, weight)
Directional(list) ==
    {<<list[k].source_id, list[k].target_id, list[k].interaction_type, list[k].weight>> :
        k \in {n \in DOMAIN list : ~list[n].bidirectional}}

\* what the eight rules yield for the pair, each on its own, card a given first
EachRuleAlone ==
    [a \in CardIds, b \in CardIds, h \in HashSeeds |->
        LET card1 == CardById(a)
            card2 == CardById(b)
        IN  Directional(_check_sacrifice_synergy(card1, card2))
            \cup Directional(_check_etb_synergy(card1, card2))
            \cup Directional(_check_counter_synergy(card1, card2))
            \cup Directional(_check_tribal_synergy(card1, card2, h))
            \cup Directional(_check_type_matters(card1, card2, h))
            \cup Directional(_check_mana_relationship(card1, card2))
            \cup Directional(_check_keyword_synergy(card1, card2))
            \cup Directional(_check_tutor_relationship(card1, card2))]

\* the directional interactions detect_all emitted between a and b
DirectionalBetween(a, b) ==
    {t \in Directional(interactions) : {t[1], t[2]} = {a, b}}

\* C24: for every pair of cards every directional rule is evaluated with each
\* card as source and no rule suppresses another: the directional interactions
\* (source, target, type, weight) emitted for the pair are the union of what
\* each rule yields on its own, whichever of the two cards comes first in the
\* input.
C24_RulesIndependent ==
    Detected =>
        \A i, j \in DOMAIN cards :
            i < j =>
                /\ DirectionalBetween(cards[i].card, cards[j].card)
                        = EachRuleAlone[cards[i].card, cards[j].card, hashSeed]
                /\ DirectionalBetween(cards[i].card, cards[j].card)
                        = EachRuleAlone[cards[j].card, cards[i].card, hashSeed]

\* C24 witness: two rules fired for one pair, both with the later card of the
\* input as source
C24_Witness ==
    /\ Detected
    /\ \E i, j \in DOMAIN cards :
            /\ i < j
            /\ Emitted(cards[j].card, cards[i].card, "death_chain", 80)
            /\ Emitted(cards[j].card, cards[i].card, "mana_enables", 60)

\* the card has no rules text
NoText == [id \in CardIds |-> CardById(id).oracle_text = <<>>]

\* C25: detect_all completes on cards with empty rules text or empty type
\* string, and a card with empty rules text matches no text pattern: it is never
\* the source of a DEATH_CHAIN, SACRIFICE_OUTLET, ETB_CHAIN, COUNTER_SYNERGY,
\* TYPE_MATTERS, BUFFS, TUTORS or text-mention TRIBAL interaction, and never the
\* target of a DEATH_CHAIN, SACRIFICE_OUTLET, ETB_CHAIN, COUNTER_SYNERGY or
\* ENABLES interaction.
C25_EmptyTextMatchesNothing ==
    Detected =>
        \A k \in DOMAIN interactions :
            /\ NoText[interactions[k].source_id] =>
                    /\ interactions[k].interaction_type \notin
                            {"death_chain", "sacrifice_outlet", "etb_chain",
                             "counter_synergy", "type_matters", "buffs", "tutors"}
                    /\ interactions[k].interaction_type = "tribal" =>
                            interactions[k].bidirectional
            /\ NoText[interactions[k].target_id] =>
                    interactions[k].interaction_type \notin
                        {"death_chain", "sacrifice_outlet", "etb_chain",
                         "counter_synergy", "enables"}

\* C25 witness: detection ran on a deck holding a card without type string and
\* a card without rules text, the latter the source of one interaction and the
\* target of another
C25_Witness ==
    /\ Detected
    /\ \E i \in DOMAIN cards : CardById(cards[i].card).type_line = <<>>
    /\ \E k, n \in DOMAIN interactions :
            /\ NoText[interactions[k].source_id]
            /\ interactions[n].target_id = interactions[k].source_id

\* C26: nodes are created only at graph construction, one per unique card id of
\* the deck: in every state reachable by detect_interactions, add_interaction,
\* add_custom_interaction (with arbitrary source and target ids) and
\* remove_interaction, the graph's node set is the set of card ids of the deck
\* and every node carries the mirrored display attributes.
C26_NodesAreTheDeck ==
    built =>
        /\ Range(graph.nodes) = {cards[k].card : k \in DOMAIN cards}
        /\ Len(graph.nodes) = Len(cards)
        /\ \A k \in DOMAIN graph.nodes :
                /\ graph.data[k].mirrored
                /\ graph.data[k].name = CardById(graph.nodes[k]).name

\* the positions <<i, j>>, i < j <= n, from <<i, j>> on, in the order of the
\* two nested loops
RECURSIVE PairsFrom(_, _, _)
PairsFrom(n, i, j) ==
    IF i >= n THEN <<>>
    ELSE IF j > n THEN PairsFrom(n, i + 1, i + 2)
    ELSE <<<<i, j>>>> \o PairsFrom(n, i, j + 1)

RECURSIVE Flatten(_)
Flatten(ss) == IF ss = <<>> THEN <<>> ELSE Head(ss) \o Flatten(Tail(ss))

\* the interactions between the cards at positions i and j of the input
BetweenPositions(i, j) ==
    {k \in DOMAIN interactions :
        {interactions[k].source_id, interactions[k].target_id}
            = {cards[i].card, cards[j].card}}

\* C27: for input cards with pairwise distinct ids, detect_all evaluates every
\* unordered pair exactly once, the first card earlier in the input than the
\* second and the pairs in input order; every emitted interaction has as source
\* and target the ids of two different input cards, so none has source equal
\* to target and a graph built by auto-detection has no self-loop.
C27_EveryPairOnce ==
    Detected =>
        LET pairs == PairsFrom(Len(cards), 1, 2)
        IN  /\ interactions =
                    Flatten([k \in DOMAIN pairs |->
                        PairInteractions[cards[pairs[k][1]].card,
                                         cards[pairs[k][2]].card, hashSeed]])
            /\ \A k \in DOMAIN interactions :
                    /\ interactions[k].source_id # interactions[k].target_id
                    /\ \E i, j \in DOMAIN cards :
                            /\ i # j
                            /\ interactions[k].source_id = cards[i].card
                            /\ interactions[k].target_id = cards[j].card
            /\ \A k \in DOMAIN graph.edges : graph.edges[k].u # graph.edges[k].v

\* C27 witness: detection ran on three cards, one of which matches both sides
\* of the sacrifice rule, and each of the three pairs yielded an interaction
C27_Witness ==
    /\ Detected
    /\ Len(cards) = 3
    /\ \E i \in DOMAIN cards : MatchesOutlet[cards[i].card] /\ MatchesDeath[cards[i].card]
    /\ BetweenPositions(1, 2) # {}
    /\ BetweenPositions(1, 3) # {}
    /\ BetweenPositions(2, 3) # {}
    /\ graph.edges # <<>>

\* how many times the type t is in the list types
TimesIn(types, t) == Cardinality({i \in DOMAIN types : types[i] = t})

\* g and h have the same edges, with the same weights and the same types as
\* multisets
SameMerge(g, h) ==
    /\ EdgePairs(g) = EdgePairs(h)
    /\ \A p \in EdgePairs(g) :
            /\ EdgeOf(g, p).weight = EdgeOf(h, p).weight
            /\ \A t \in InteractionTypes :
                    TimesIn(EdgeOf(g, p).interaction_types, t)
                        = TimesIn(EdgeOf(h, p).interaction_types, t)

\* C28: ingest order does not affect the merged result except for the
\* first-wins fields: whenever a step feeds a list of interactions to
\* add_interaction, feeding any permutation of the list to the same graph
\* gives the same edge set, the same weight on every edge and the same
\* multiset of types on every edge.
C28_IngestOrder ==
    [][FedByStep # <<>> =>
            \A f \in Permutations(DOMAIN FedByStep) :
                SameMerge(Ingest(graph, [k \in DOMAIN FedByStep |-> FedByStep[f[k]]]),
                          graph')]_vars

\* C28 witness: the list was ingested into a graph that had an edge; it holds
\* two interactions of different weights for the pair of that edge, the
\* lighter first, and an interaction for another pair
C28_Witness ==
    /\ "ingest" \in Range(hist)
    /\ Len(fed) = Len(interactions) + 1
    /\ \E i, j, k \in DOMAIN interactions :
            /\ i < j
            /\ interactions[i].weight < interactions[j].weight
            /\ {interactions[i].source_id, interactions[i].target_id}
                    = {fed[1].source_id, fed[1].target_id}
            /\ {interactions[i].source_id, interactions[i].target_id}
                    = {interactions[j].source_id, interactions[j].target_id}
            /\ interactions[i].weight # interactions[j].weight
            /\ {interactions[k].source_id, interactions[k].target_id}
                    # {interactions[i].source_id, interactions[i].target_id}
    /\ \A p \in FedPairs : p \in EdgePairs(graph)

\* the entries of DeckGraph.interactions between the two ids of p
ListedFor(p) ==
    {k \in DOMAIN interactions :
        {interactions[k].source_id, interactions[k].target_id} = p}

\* C29: DeckGraph.interactions and the edge set stay consistent under any
\* sequence of detect_interactions, add_custom_interaction and
\* remove_interaction: an edge exists between a and b exactly when the list
\* holds an interaction between a and b, and the edge's weight is the maximum
\* weight of those listed interactions.
C29_ListMatchesEdges ==
    (built /\ NoDirectAdd) =>
        /\ EdgePairs(graph)
                = {{interactions[k].source_id, interactions[k].target_id} :
                        k \in DOMAIN interactions}
        /\ \A p \in EdgePairs(graph) :
                /\ \A k \in ListedFor(p) :
                        interactions[k].weight <= EdgeOf(graph, p).weight
                /\ \E k \in ListedFor(p) :
                        interactions[k].weight = EdgeOf(graph, p).weight

\* the card's text matches one of the detector's add-counters patterns
AddsCounters ==
    [id \in CardIds |-> AnySearch(counter_add_patterns, CardById(id).oracle_text)]

\* the card's text matches one of Card.has_counter_synergy's patterns
CaresAboutCounters ==
    [id \in CardIds |-> AnySearch(CardCounterPatterns, CardById(id).oracle_text)]

\* the symmetric counter interactions emitted for the cards at positions i < j
SymmetricCounter(i, j) ==
    {k \in EmittedOf(cards[i].card, cards[j].card, "counter_synergy") :
        interactions[k].weight = 70 /\ interactions[k].bidirectional}

\* the directional counter interactions emitted from source_id to target_id
DirectionalCounter(source_id, target_id) ==
    {k \in EmittedOf(source_id, target_id, "counter_synergy") :
        interactions[k].weight = 75 /\ ~interactions[k].bidirectional}

\* C30: for every pair of cards the symmetric COUNTER_SYNERGY interaction
\* (weight 0.7, bidirectional, source the card earlier in the input) is emitted
\* exactly when at least one directional COUNTER_SYNERGY interaction (weight
\* 0.75) is emitted for the pair, because every text that matches an
\* add-counters pattern also matches the cares-about-counters pattern; so every
\* edge carrying counter_synergy has weight at least 0.75.
C30_CounterSynergy ==
    Detected =>
        /\ \A id \in CardIds : AddsCounters[id] => CaresAboutCounters[id]
        /\ \A i, j \in DOMAIN cards :
                i < j =>
                    /\ SymmetricCounter(i, j) # {}
                            <=> \/ DirectionalCounter(cards[i].card, cards[j].card) # {}
                                \/ DirectionalCounter(cards[j].card, cards[i].card) # {}
                    /\ EmittedOf(cards[i].card, cards[j].card, "counter_synergy")
                            = SymmetricCounter(i, j)
                                \cup DirectionalCounter(cards[i].card, cards[j].card)
                    /\ EmittedOf(cards[j].card, cards[i].card, "counter_synergy")
                            = DirectionalCounter(cards[j].card, cards[i].card)
        /\ \A k \in DOMAIN graph.edges :
                "counter_synergy" \in Range(graph.edges[k].interaction_types) =>
                    graph.edges[k].weight >= 75

\* C30 witness: the card that adds counters comes after a card that only cares
\* about them; the directional interaction goes from the later card to the
\* earlier, the symmetric one from the earlier to the later, and their edge has
\* weight 0.75
C30_Witness ==
    /\ Detected
    /\ \E i, j \in DOMAIN cards :
            /\ i < j
            /\ AddsCounters[cards[j].card]
            /\ ~AddsCounters[cards[i].card]
            /\ Emitted(cards[j].card, cards[i].card, "counter_synergy", 75)
            /\ Emitted(cards[i].card, cards[j].card, "counter_synergy", 70)
            /\ EdgeOf(graph, {cards[i].card, cards[j].card}).weight = 75

=============================================================================
